---- MODULE Spec2Model ----
(***************************************************************************)
(* Wallet ledger of Wallet-Service: WalletService.initialize_deposit,      *)
(* WalletService.process_webhook and WalletService.transfer running as     *)
(* concurrent requests, each with its own AsyncSession, against one        *)
(* PostgreSQL database (READ COMMITTED, no row locks are taken: the code   *)
(* never uses with_for_update).                                            *)
(*                                                                         *)
(* A session reads rows into Python objects (a snapshot private to the     *)
(* request), changes the objects in Python, and session.commit() flushes   *)
(* "UPDATE ... SET column = <python value>" for every changed attribute    *)
(* and the INSERTs in one database transaction.  A request is therefore a  *)
(* sequence of steps, one per awaited database round trip or gateway call, *)
(* and other requests interleave between the steps.                        *)
(*                                                                         *)
(* Amounts are Decimal(scale 2) in the code; here they are the integer     *)
(* number of hundredths.                                                   *)
(***************************************************************************)
EXTENDS Integers, FiniteSets, Sequences, TLC

\* ---------------------------------------------------------------- bounds
MaxRequests == 2
MaxAmount == 2

Procs == {1, 2}
Users == {"u1", "u2", "u3"}
Amounts == 1..MaxAmount
DepositRefs == {"TXN_1", "TXN_2"}
TransferRefs == {"TFR_1", "TFR_2"}
References == DepositRefs \cup TransferRefs
GatewayStatuses == {"success", "failed", "abandoned"}
WalletNumbers == {"0000000000001", "0000000000002", "0000000000003", "0000000000004"}
RecipientNumbers == {"0000000000001", "0000000000002", "0000000000003"}

\* What a client may send as amount: also zero and a negative amount
RequestAmounts == (0 - 1)..MaxAmount

\* The webhook secret, and a key an outsider signs with
SecretKey == "PAYSTACK_SECRET_KEY"
SigningKeys == {SecretKey, "forged_key"}
Events == {"charge.success", "charge.failed"}

\* The history query: pages and page sizes asked for, creation times
MaxPage == 3
MaxPageSize == 3
MaxTime == 3
\* Query(default=20, ge=1, le=100): the largest page size accepted
PAGE_SIZE_LIMIT == 100
Pages == 0..MaxPage
PageSizes == (0..MaxPageSize) \cup {PAGE_SIZE_LIMIT, PAGE_SIZE_LIMIT + 1}
Times == 1..MaxTime
HistoryRefs == {"TXN_1", "TXN_2", "TXN_3"}

\* API keys: the clock runs to MaxNow, the table holds up to MaxKeys rows
MaxNow == 3
MaxKeys == 8
\* settings.API_KEY_MAX_PER_USER
API_KEY_MAX_PER_USER == 5
\* parse_expiry: the lifetimes a request may ask for, in ticks of the clock
Expiries == {1, 2}
KeyOwners == {"u1", "u2"}
\* CreateAPIKeyRequest.permissions: the permissions a key may carry
Permissions == {"deposit", "transfer", "read"}

\* JWTs: the jti claims of the tokens issued, and the lifetime of a token in
\* ticks of the clock (expires_in_hours)
Jtis == {"jti_1", "jti_2"}
TOKEN_LIFETIME == 2

VARIABLES
    wallets,        \* table wallets: id (1..Len) -> row
    transactions,   \* table transactions: reference -> row
    pc,             \* per request slot: the await the request is suspended at
    req,            \* per request slot: arguments, session snapshot, result
    last,           \* the request that completed in the last step, with its result
    credits,        \* history: reference -> number of committed wallet credits
    nreq,           \* number of requests started so far
    created_at,     \* column created_at of table transactions: reference -> time
    listing,        \* the call of get_transactions in flight, or the last response
    api_keys,       \* table api_keys: id (1..Len) -> row
    key_calls,      \* per request slot: the API key request in flight
    key_last,       \* the API key request that completed in the last step, or
                    \* the authentication of the request that arrived in it
    now,            \* datetime.utcnow()
    tokens,         \* the JWTs issued: jti -> exp
    revoked_tokens, \* Redis keys revoked_token:<jti>: jti -> time the key expires
    redis_up,       \* whether Redis can be reached
    logged_out,     \* history: the jtis a logout has revoked
    auth_last,      \* the last token operation, with its outcome
    conversion      \* the deposit amount of a request body on its way to the gateway

vars == <<wallets, transactions, pc, req, last, credits, nreq, created_at, listing,
          api_keys, key_calls, key_last, now,
          tokens, revoked_tokens, redis_up, logged_out, auth_last, conversion>>

history_vars == <<created_at, listing>>
keys_vars == <<api_keys, key_calls, key_last>>
auth_vars == <<tokens, revoked_tokens, redis_up, logged_out, auth_last>>
amount_vars == <<conversion>>

\* What the requests of the ledger leave alone; key_last is left alone by
\* every step that is not the arrival of an authenticated request
outside_ledger == <<history_vars, api_keys, key_calls, now, auth_vars, amount_vars>>

\* ------------------------------------------------------------ the tables
Wallet(user_id, wallet_number) ==
    [user_id |-> user_id, wallet_number |-> wallet_number, balance |-> 0]

NoRequest ==
    [op |-> "none", user_id |-> "none", amount |-> 0, reference |-> "none",
     status |-> "none", number |-> "none",
     sender_id |-> 0, sender_balance |-> 0,
     recipient_id |-> 0, recipient_balance |-> 0,
     txn_status |-> "none", txn_amount |-> 0, txn_wallet_id |-> 0,
     wallet_balance |-> 0, url |-> << >>, debited |-> 0,
     event |-> "none", signature |-> << >>, answer |-> "none",
     result |-> "none", returned |-> "none"]

\* No call of get_transactions was made yet
NoListing ==
    [pc |-> "idle", user_id |-> "none", page |-> 0, page_size |-> 0,
     total |-> 0, items |-> << >>, total_pages |-> 0, result |-> "none"]

\* No token operation yet
NoTokenCall == [op |-> "none", jti |-> "none", at |-> 0, result |-> "none"]

\* No token was issued; Redis is reachable and holds no key
NoTokens ==
    /\ tokens = << >>
    /\ revoked_tokens = << >>
    /\ redis_up = TRUE
    /\ logged_out = {}
    /\ auth_last = NoTokenCall

\* No request body was received
NoConversion ==
    [stage |-> "none", digits |-> <<0>>, exponent |-> 0, amount_in_kobo |-> <<0>>,
     stored |-> <<0>>]

\* No API key request in a slot
NoKeyCall ==
    [pc |-> "idle", op |-> "none", user_id |-> "none", expiry |-> 0,
     key_id |-> 0, found |-> FALSE, owner |-> "none", expires_at |-> 0,
     active |-> 0, permissions |-> {}, auth_type |-> "none", jti |-> "none",
     permission |-> "none", result |-> "none"]

\* The ledger once users u1 and u2 have logged in (AuthService creates their
\* wallets with balance 0.00); u3 is a user whose wallet was never created
Fresh ==
    /\ wallets = << Wallet("u1", "0000000000001"), Wallet("u2", "0000000000002") >>
    /\ transactions = << >>
    /\ credits = [r \in References |-> 0]

\* The deposit row of the ledgers below: u1 deposits MaxAmount under TXN_1
FirstDeposit(status) ==
    [user_id |-> "u1", wallet_id |-> 1, type |-> "deposit",
     amount |-> MaxAmount, status |-> status, reference |-> "TXN_1",
     paystack_reference |-> "TXN_1", payment_url |-> <<"checkout", "TXN_1">>,
     sender_wallet_number |-> "none", recipient_wallet_number |-> "none"]

\* The fresh ledger after initialize_deposit(u1, MaxAmount) returned
Pending ==
    /\ wallets = << Wallet("u1", "0000000000001"), Wallet("u2", "0000000000002") >>
    /\ transactions = ("TXN_1" :> FirstDeposit("pending"))
    /\ credits = [r \in References |-> 0]

\* The pending ledger after process_webhook("TXN_1", "success") returned
Funded ==
    /\ wallets = << [Wallet("u1", "0000000000001") EXCEPT !.balance = MaxAmount],
                    Wallet("u2", "0000000000002") >>
    /\ transactions = ("TXN_1" :> FirstDeposit("success"))
    /\ credits = [r \in References |-> IF r = "TXN_1" THEN 1 ELSE 0]

Init ==
    /\ Fresh \/ Pending \/ Funded
    /\ pc = [p \in Procs |-> "idle"]
    /\ req = [p \in Procs |-> NoRequest]
    /\ last = NoRequest
    /\ nreq = 0
    /\ created_at = << >>
    /\ listing = NoListing
    /\ api_keys = << >>
    /\ key_calls = [p \in Procs |-> NoKeyCall]
    /\ key_last = NoKeyCall
    /\ now = 1
    /\ NoTokens
    /\ conversion = NoConversion

\* ------------------------------------------------------------- queries
\* (variant: the lookup by user finds no wallet)
WalletsOfUserNeverFound(user_id) == {}

\* select(Wallet).where(Wallet.user_id == user_id): the matching ids
WalletsOfUser(user_id) == {i \in DOMAIN wallets : wallets[i].user_id = user_id}

\* select(Wallet).where(Wallet.wallet_number == wallet_number)
WalletsOfNumber(number) == {i \in DOMAIN wallets : wallets[i].wallet_number = number}

\* select(Transaction).where(Transaction.reference == reference)
Stored(reference) == reference \in DOMAIN transactions

\* (variant: the table has no unique index on reference)
UniqueViolationNeverRaised(reference) == FALSE

\* Transaction.reference is unique=True: the INSERT of a reference that is
\* stored is refused by the index
UniqueViolation(reference) == Stored(reference)

\* INSERT INTO transactions; the table is kept by reference here, so a row put
\* under a stored reference would take the place of the stored row
Insert(reference, row) ==
    [x \in DOMAIN transactions \cup {reference} |->
        IF x = reference THEN row ELSE transactions[x]]

Free(p) == pc[p] = "idle"

\* A new request takes the lowest free slot (the slots are interchangeable)
CanStart(p) ==
    /\ Free(p)
    /\ \A q \in Procs : q < p => ~Free(q)
    /\ nreq < MaxRequests

\* The request returns or raises: its session is closed and its outcome is `last`
Finish(p, r) ==
    /\ pc' = [pc EXCEPT ![p] = "idle"]
    /\ req' = [req EXCEPT ![p] = NoRequest]
    /\ last' = r
    /\ UNCHANGED outside_ledger

\* The request is suspended at its next await
Goto(p, label, r) ==
    /\ pc' = [pc EXCEPT ![p] = label]
    /\ req' = [req EXCEPT ![p] = r]
    /\ last' = NoRequest
    /\ UNCHANGED outside_ledger


\* ------------------------------------------------------ request checks
\* (variant: the schema accepts every amount)
AmountNeverValidated(amount) == TRUE

\* DepositRequest.amount and TransferRequest.amount: Field(..., gt=0)
ValidAmount(amount) == amount > 0

\* The raw body of a webhook delivery, as far as the route reads it:
\* data["event"], data["data"]["reference"], data["data"]["status"]
Body(event, reference, status) ==
    [event |-> event, reference |-> reference, status |-> status]

\* hmac.new(key, payload, sha512).hexdigest(): a digest determined by the key
\* and the payload, different for different keys or payloads
Hmac(key, payload) == <<key, payload>>

\* (variant: the signature header is not looked at)
SignatureNeverVerified(signature, payload) == TRUE

\* PaystackService.verify_webhook_signature:
\* compare_digest(signature, hmac(PAYSTACK_SECRET_KEY, payload))
verify_webhook_signature(signature, payload) == signature = Hmac(SecretKey, payload)

\* ------------------------------------------------- Python-side arithmetic
\* (variant: the balance check never raises)
InsufficientBalanceNeverRaised(balance, amount) == FALSE

\* (variant: the balance check also raises when the amount equals the balance)
InsufficientBalanceNotStrict(balance, amount) == balance <= amount

\* transfer: "if sender_wallet.balance < amount" raises InsufficientBalanceException
InsufficientBalance(balance, amount) == balance < amount

\* "wallet.balance -= amount" on the loaded object
Debit(balance, amount) == balance - amount

\* "wallet.balance += amount" on the loaded object
Credit(balance, amount) == balance + amount

\* (variant: the own-wallet check is missing)
SelfTransferNeverChecked(sender_id, recipient_id) == FALSE

\* transfer: "if sender_wallet.id == recipient_wallet.id"
SelfTransfer(sender_id, recipient_id) == sender_id = recipient_id

\* (variant: the transfer is recorded for the recipient)
TransferTransactionOfRecipient(r, reference) ==
    [user_id |-> wallets[r.recipient_id].user_id, wallet_id |-> r.recipient_id,
     type |-> "transfer",
     amount |-> r.amount, status |-> "success", reference |-> reference,
     paystack_reference |-> "none", payment_url |-> << >>,
     sender_wallet_number |-> wallets[r.sender_id].wallet_number,
     recipient_wallet_number |-> wallets[r.recipient_id].wallet_number]

\* Transaction(...) built by transfer
TransferTransaction(r, reference) ==
    [user_id |-> r.user_id, wallet_id |-> r.sender_id, type |-> "transfer",
     amount |-> r.amount, status |-> "success", reference |-> reference,
     paystack_reference |-> "none", payment_url |-> << >>,
     sender_wallet_number |-> wallets[r.sender_id].wallet_number,
     recipient_wallet_number |-> wallets[r.recipient_id].wallet_number]

\* Transaction(...) built by initialize_deposit
DepositTransaction(r) ==
    [user_id |-> r.user_id, wallet_id |-> r.sender_id, type |-> "deposit",
     amount |-> r.amount, status |-> "pending", reference |-> r.reference,
     paystack_reference |-> r.reference, payment_url |-> r.url,
     sender_wallet_number |-> "none", recipient_wallet_number |-> "none"]

\* PaystackService.initialize_transaction: data["authorization_url"] of a 200 answer,
\* the checkout link the gateway issues for this reference
AuthorizationUrl(reference) == <<"checkout", reference>>

\* What a call of the gateway meets: a 200 answer, an answer with another
\* status code, or a transport failure (httpx.HTTPError: timeout, connection error)
GatewayAnswers == {"200", "non_200", "transport_error"}

\* (variant: every failure of the call is reported as PaymentProcessingException)
initialize_transaction_one_kind(answer) ==
    IF answer = "200" THEN "ok" ELSE "PaymentProcessingException"

\* PaystackService.initialize_transaction, lines 53-66: the exception raised
\* for the answer.  The PaymentProcessingException raised for a non-200
\* answer is not an httpx.HTTPError, so "except Exception" raises it anew.
initialize_transaction(answer) ==
    CASE answer = "200" -> "ok"
      [] answer = "transport_error" -> "NetworkException"
      [] OTHER -> "PaymentProcessingException"

\* (variant: a wallet that is missing is created on the spot and the request ends)
WalletMissingCreated(p, r) ==
    /\ wallets' = Append(wallets, Wallet(r.user_id, "0000000000004"))
    /\ Finish(p, [r EXCEPT !.result = "ok"])

\* get_wallet_by_user_id, lines 86-88, and get_wallet_by_number, lines 111-113:
\* "if not wallet: raise WalletNotFoundException"
WalletMissing(p, r) ==
    /\ Finish(p, [r EXCEPT !.result = "WalletNotFound"])
    /\ UNCHANGED wallets

\* -------------------------------------------------------- create_wallet
\* create_wallet, lines 46-52: the lookup of the user's wallet; an existing
\* wallet is returned
create_wallet_select(p, user_id) ==
    /\ CanStart(p)
    /\ nreq' = nreq + 1
    /\ LET r == [NoRequest EXCEPT !.op = "create_wallet", !.user_id = user_id]
           found == WalletsOfUser(user_id)
       IN  IF Cardinality(found) > 1
           THEN Finish(p, [r EXCEPT !.result = "MultipleResultsFound"])
           ELSE IF found # {}
           THEN Finish(p, [r EXCEPT !.result = "ok",
                                    !.number = wallets[CHOOSE i \in found : TRUE].wallet_number])
           ELSE Goto(p, "create_wallet_commit", r)
    /\ UNCHANGED <<wallets, transactions, credits>>

\* create_wallet, lines 54-65: Wallet(user_id, generate_wallet_number(), 0.00);
\* session.add; commit.  The unique index is on wallet_number only: a number
\* that is taken raises IntegrityError, a second wallet of the user does not.
create_wallet_commit(p) ==
    /\ pc[p] = "create_wallet_commit"
    /\ \E number \in WalletNumbers :
         IF WalletsOfNumber(number) # {}
         THEN /\ Finish(p, [req[p] EXCEPT !.number = number, !.result = "IntegrityError"])
              /\ UNCHANGED wallets
         ELSE /\ wallets' = Append(wallets, Wallet(req[p].user_id, number))
              /\ Finish(p, [req[p] EXCEPT !.number = number, !.result = "ok"])
    /\ UNCHANGED <<transactions, credits, nreq>>

\* ------------------------------------------------------------- transfer
\* Requests of the same sender that hold a snapshot of the sender's balance
\* (history for `debited`: what others debited since the snapshot was taken)
HoldsSnapshotOf(q, wallet_id) ==
    /\ pc[q] \in {"transfer_get_recipient", "transfer_commit"}
    /\ req[q].sender_id = wallet_id

\* route transfer: the request body is validated against TransferRequest;
\* then transfer, line 259: get_wallet_by_user_id(sender_user_id)
transfer_get_sender(p, sender_user_id, recipient_wallet_number, amount) ==
    /\ CanStart(p)
    /\ nreq' = nreq + 1
    /\ LET r == [NoRequest EXCEPT !.op = "transfer", !.user_id = sender_user_id,
                                  !.number = recipient_wallet_number,
                                  !.amount = amount]
           found == WalletsOfUser(sender_user_id)
       IN  IF ~ValidAmount(amount)
           THEN /\ Finish(p, [r EXCEPT !.result = "ValidationError"])
                /\ UNCHANGED wallets
           ELSE IF found = {}
           THEN WalletMissing(p, r)
           ELSE /\ UNCHANGED wallets
                /\ IF Cardinality(found) > 1
                   THEN Finish(p, [r EXCEPT !.result = "MultipleResultsFound"])
                   ELSE LET w == CHOOSE i \in found : TRUE
                        IN  Goto(p, "transfer_get_recipient",
                                 [r EXCEPT !.sender_id = w,
                                           !.sender_balance = wallets[w].balance])
    /\ UNCHANGED <<transactions, credits>>

\* transfer, lines 261-263: get_wallet_by_number(recipient_wallet_number).
\* A row already loaded in the session keeps its loaded attributes.
transfer_get_recipient(p) ==
    /\ pc[p] = "transfer_get_recipient"
    /\ LET r == req[p]
           found == WalletsOfNumber(r.number)
       IN  IF found = {}
           THEN WalletMissing(p, r)
           ELSE LET w == CHOOSE i \in found : TRUE
                IN  /\ UNCHANGED wallets
                    /\ Goto(p, "transfer_commit",
                            [r EXCEPT !.recipient_id = w,
                                      !.recipient_balance =
                                          IF w = r.sender_id THEN r.sender_balance
                                          ELSE wallets[w].balance])
    /\ UNCHANGED <<transactions, credits, nreq>>

\* (variant: the recipient is never credited)
TransferWritesDebitOnly(p, reference) ==
    LET r == req[p]
    IN  /\ wallets' = [wallets EXCEPT
              ![r.sender_id].balance = r.sender_balance - r.amount]
        /\ transactions' = Insert(reference, TransferTransaction(r, reference))

\* The rows session.commit() writes for a transfer: both balances and the INSERT
TransferWrites(p, reference) ==
    LET r == req[p]
    IN  /\ wallets' = [wallets EXCEPT
              ![r.sender_id].balance = Debit(r.sender_balance, r.amount),
              ![r.recipient_id].balance = Credit(r.recipient_balance, r.amount)]
        /\ transactions' = Insert(reference, TransferTransaction(r, reference))

\* transfer, lines 265-314: the checks on the loaded objects, then commit.
\* A reference that is already stored violates the unique index: the flush
\* raises IntegrityError and the database transaction is rolled back.
transfer_commit(p) ==
    /\ pc[p] = "transfer_commit"
    /\ LET r == req[p]
       IN  IF InsufficientBalance(r.sender_balance, r.amount)
           THEN /\ Finish(p, [r EXCEPT !.result = "InsufficientBalance"])
                /\ UNCHANGED <<wallets, transactions>>
           ELSE IF SelfTransfer(r.sender_id, r.recipient_id)
           THEN /\ Finish(p, [r EXCEPT !.result = "WalletNotFound"])
                /\ UNCHANGED <<wallets, transactions>>
           ELSE \E reference \in TransferRefs :
                  IF UniqueViolation(reference)
                  THEN /\ Finish(p, [r EXCEPT !.reference = reference,
                                              !.result = "IntegrityError"])
                       /\ UNCHANGED <<wallets, transactions>>
                  ELSE /\ TransferWrites(p, reference)
                       /\ pc' = [pc EXCEPT ![p] = "idle"]
                       /\ last' = [r EXCEPT !.reference = reference, !.result = "ok",
                                            !.returned = "success"]
                       /\ req' = [q \in Procs |->
                            IF q = p
                            THEN NoRequest
                            ELSE IF HoldsSnapshotOf(q, r.sender_id)
                            THEN [req[q] EXCEPT !.debited = @ + r.amount]
                            ELSE req[q]]
    /\ UNCHANGED <<credits, nreq>>
    /\ UNCHANGED outside_ledger

\* --------------------------------------------------- initialize_deposit
\* route deposit: the request body is validated against DepositRequest;
\* then initialize_deposit, line 139: get_wallet_by_user_id(user_id)
initialize_deposit_get_wallet(p, user_id, amount) ==
    /\ CanStart(p)
    /\ nreq' = nreq + 1
    /\ LET r == [NoRequest EXCEPT !.op = "initialize_deposit", !.user_id = user_id,
                                  !.amount = amount]
           found == WalletsOfUser(user_id)
       IN  IF ~ValidAmount(amount)
           THEN /\ Finish(p, [r EXCEPT !.result = "ValidationError"])
                /\ UNCHANGED wallets
           ELSE IF found = {}
           THEN WalletMissing(p, r)
           ELSE /\ UNCHANGED wallets
                /\ IF Cardinality(found) > 1
                   THEN Finish(p, [r EXCEPT !.result = "MultipleResultsFound"])
                   ELSE Goto(p, "initialize_deposit_select",
                             [r EXCEPT !.sender_id = CHOOSE i \in found : TRUE])
    /\ UNCHANGED <<transactions, credits>>

\* initialize_deposit, lines 141-146: the generated reference and the lookup for it
initialize_deposit_select(p) ==
    /\ pc[p] = "initialize_deposit_select"
    /\ \E reference \in DepositRefs :
         IF Stored(reference)
         THEN Finish(p, [req[p] EXCEPT !.reference = reference,
                                       !.result = "DuplicateTransaction"])
         ELSE Goto(p, "initialize_deposit_gateway",
                   [req[p] EXCEPT !.reference = reference])
    /\ UNCHANGED <<wallets, transactions, credits, nreq>>

\* initialize_deposit, lines 148-153: PaystackService.initialize_transaction
initialize_deposit_gateway(p) ==
    /\ pc[p] = "initialize_deposit_gateway"
    /\ \E answer \in GatewayAnswers :
         LET outcome == initialize_transaction(answer)
         IN  IF outcome = "ok"
             THEN Goto(p, "initialize_deposit_commit",
                       [req[p] EXCEPT !.answer = answer,
                                      !.url = AuthorizationUrl(req[p].reference)])
             ELSE Finish(p, [req[p] EXCEPT !.answer = answer, !.result = outcome])
    /\ UNCHANGED <<wallets, transactions, credits, nreq>>

\* (variant: the deposit is credited when it is initialized)
DepositWritesCrediting(p) ==
    /\ transactions' = Insert(req[p].reference, DepositTransaction(req[p]))
    /\ wallets' = [wallets EXCEPT ![req[p].sender_id].balance = @ + req[p].amount]

\* The rows session.commit() writes for initialize_deposit: the INSERT only
DepositWrites(p) ==
    /\ transactions' = Insert(req[p].reference, DepositTransaction(req[p]))
    /\ UNCHANGED wallets

\* initialize_deposit, lines 155-177: session.add(transaction); commit
initialize_deposit_commit(p) ==
    /\ pc[p] = "initialize_deposit_commit"
    /\ IF UniqueViolation(req[p].reference)
       THEN /\ Finish(p, [req[p] EXCEPT !.result = "IntegrityError"])
            /\ UNCHANGED <<wallets, transactions>>
       ELSE /\ DepositWrites(p)
            /\ Finish(p, [req[p] EXCEPT !.result = "ok", !.returned = "pending"])
    /\ UNCHANGED <<credits, nreq>>


\* ------------------------------------------------------ process_webhook
\* (variant: the already-processed check is missing)
AlreadyProcessedNeverChecked(status) == FALSE

\* process_webhook, line 207: "if transaction.status == 'success': return transaction"
AlreadyProcessed(status) == status = "success"

\* (variant: the amount credited is the amount the delivery reports)
reconciled_amount_of_payload(t, d) == d.signature[2].amount

\* process_webhook, line 220: "wallet.balance += transaction.amount", the
\* amount of the transaction loaded, for the delivery d the route passed on
reconciled_amount(t, d) == t.amount

\* (variant: a delivery for an unknown reference is recorded as a new transaction)
TransactionMissingRecorded(p, r) ==
    /\ transactions' = Insert(r.reference,
                              [FirstDeposit(r.status) EXCEPT !.reference = r.reference,
                                                             !.paystack_reference = r.reference])
    /\ Finish(p, [r EXCEPT !.result = "ok", !.returned = r.status])

\* process_webhook, lines 203-205: "if not transaction: raise TransactionNotFoundException"
TransactionMissing(p, r) ==
    /\ Finish(p, [r EXCEPT !.result = "TransactionNotFound"])
    /\ UNCHANGED transactions

\* process_webhook, lines 199-211: the lookup of the transaction, for the
\* delivery d the route passed on
process_webhook_select(p, d) ==
    /\ CanStart(p)
    /\ nreq' = nreq + 1
    /\ LET r == [d EXCEPT !.op = "process_webhook"]
           reference == d.reference
           status == d.status
       IN  IF ~Stored(reference)
           THEN TransactionMissing(p, r)
           ELSE LET t == transactions[reference]
                    s == [r EXCEPT !.txn_status = t.status,
                                   !.txn_amount = reconciled_amount(t, d),
                                   !.txn_wallet_id = t.wallet_id]
                IN  /\ UNCHANGED transactions
                    /\ IF AlreadyProcessed(t.status)
                       THEN Finish(p, [s EXCEPT !.result = "ok", !.returned = t.status])
                       ELSE IF status = "success"
                       THEN Goto(p, "process_webhook_get_wallet", s)
                       ELSE Goto(p, "process_webhook_commit", s)
    /\ UNCHANGED <<wallets, credits>>

\* (variant: the route passes the delivery of every event on to process_webhook)
paystack_webhook_of_every_event(p, body, signature) ==
    LET d == [NoRequest EXCEPT !.op = "paystack_webhook", !.event = body.event,
                               !.reference = body.reference, !.status = body.status,
                               !.signature = signature]
    IN  IF ~verify_webhook_signature(signature, body)
        THEN /\ CanStart(p)
             /\ nreq' = nreq + 1
             /\ Finish(p, [d EXCEPT !.result = "INVALID_SIGNATURE"])
             /\ UNCHANGED <<wallets, transactions, credits>>
        ELSE process_webhook_select(p, d)

\* route paystack_webhook, lines 135-170: the signature of the raw body is
\* verified, events other than charge.success are acknowledged and ignored,
\* and the reference and status of the body go to process_webhook
paystack_webhook(p, body, signature) ==
    LET d == [NoRequest EXCEPT !.op = "paystack_webhook", !.event = body.event,
                               !.reference = body.reference, !.status = body.status,
                               !.signature = signature]
    IN  IF ~verify_webhook_signature(signature, body)
        THEN /\ CanStart(p)
             /\ nreq' = nreq + 1
             /\ Finish(p, [d EXCEPT !.result = "INVALID_SIGNATURE"])
             /\ UNCHANGED <<wallets, transactions, credits>>
        ELSE IF body.event # "charge.success"
        THEN /\ CanStart(p)
             /\ nreq' = nreq + 1
             /\ Finish(p, [d EXCEPT !.result = "ok", !.returned = "Event ignored"])
             /\ UNCHANGED <<wallets, transactions, credits>>
        ELSE process_webhook_select(p, d)

\* A POST to the webhook route through a free slot: request.body() is the
\* body given, and the X-Paystack-Signature header was made with `key` over
\* the same body with status `signed`
webhook_delivery(p, event, reference, status, key, signed) ==
    /\ Free(p)
    /\ paystack_webhook(p, Body(event, reference, status),
                        Hmac(key, Body(event, reference, signed)))

\* process_webhook, line 217: session.get(Wallet, transaction.wallet_id)
process_webhook_get_wallet(p) ==
    /\ pc[p] = "process_webhook_get_wallet"
    /\ Goto(p, "process_webhook_commit",
            [req[p] EXCEPT !.wallet_balance = wallets[req[p].txn_wallet_id].balance])
    /\ UNCHANGED <<wallets, transactions, credits, nreq>>

\* The status the flush writes: an attribute set to the value it was loaded
\* with has no net change and is left out of the UPDATE
StatusWritten(loaded, new, stored) == IF new = loaded THEN stored ELSE new

\* (variant: a delivery that is not success stores the gateway's status as it came)
WebhookWritesGatewayStatus(p) ==
    LET r == req[p]
        t == transactions[r.reference]
    IN  IF r.status = "success"
        THEN /\ transactions' = [transactions EXCEPT ![r.reference].status =
                                    StatusWritten(r.txn_status, "success", t.status)]
             /\ wallets' = [wallets EXCEPT ![r.txn_wallet_id].balance =
                                    Credit(r.wallet_balance, r.txn_amount)]
             /\ credits' = [credits EXCEPT ![r.reference] = @ + 1]
        ELSE /\ transactions' = [transactions EXCEPT ![r.reference].status =
                                    StatusWritten(r.txn_status, r.status, t.status)]
             /\ UNCHANGED <<wallets, credits>>

\* The rows session.commit() writes for process_webhook
WebhookWrites(p) ==
    LET r == req[p]
        t == transactions[r.reference]
    IN  IF r.status = "success"
        THEN /\ transactions' = [transactions EXCEPT ![r.reference].status =
                                    StatusWritten(r.txn_status, "success", t.status)]
             /\ wallets' = [wallets EXCEPT ![r.txn_wallet_id].balance =
                                    Credit(r.wallet_balance, r.txn_amount)]
             /\ credits' = [credits EXCEPT ![r.reference] = @ + 1]
        ELSE /\ transactions' = [transactions EXCEPT ![r.reference].status =
                                    StatusWritten(r.txn_status, "failed", t.status)]
             /\ UNCHANGED <<wallets, credits>>

\* process_webhook, lines 213-231: the changes on the loaded objects, then commit
process_webhook_commit(p) ==
    /\ pc[p] = "process_webhook_commit"
    /\ WebhookWrites(p)
    /\ Goto(p, "process_webhook_refresh", [req[p] EXCEPT !.result = "ok"])
    /\ UNCHANGED nreq

\* process_webhook, lines 232-234: session.refresh(transaction); return transaction
process_webhook_refresh(p) ==
    /\ pc[p] = "process_webhook_refresh"
    /\ Finish(p, [req[p] EXCEPT !.returned = transactions[req[p].reference].status])
    /\ UNCHANGED <<wallets, transactions, credits, nreq>>

\* --------------------------------------------------- verify_transaction
\* PaystackService.verify_transaction, lines 84-97: data["status"] of a 200
\* answer; every exception, also a transport failure, is caught by
\* "except Exception" and raised as PaymentProcessingException
verify_transaction_outcome(answer, status) ==
    IF answer = "200" THEN status ELSE "PaymentProcessingException"

\* route verify_transaction, line 220: get_transaction_by_reference(reference);
\* a transaction that is not pending is answered from the database
verify_transaction_select(p, reference) ==
    /\ CanStart(p)
    /\ nreq' = nreq + 1
    /\ LET r == [NoRequest EXCEPT !.op = "verify_transaction", !.reference = reference]
       IN  IF ~Stored(reference)
           THEN Finish(p, [r EXCEPT !.result = "TransactionNotFound"])
           ELSE LET t == transactions[reference]
                IN  IF t.status = "pending"
                    THEN Goto(p, "verify_transaction_gateway",
                              [r EXCEPT !.txn_status = t.status])
                    ELSE Finish(p, [r EXCEPT !.txn_status = t.status,
                                             !.result = "ok", !.returned = t.status])
    /\ UNCHANGED <<wallets, transactions, credits>>

\* (variant: a verification that finds the charge paid reconciles the deposit)
VerifyWritesReconciling(p, outcome) ==
    LET t == transactions[req[p].reference]
    IN  IF outcome = "success"
        THEN /\ transactions' = [transactions EXCEPT ![req[p].reference].status = "success"]
             /\ wallets' = [wallets EXCEPT ![t.wallet_id].balance = @ + t.amount]
             /\ UNCHANGED credits
        ELSE UNCHANGED <<wallets, transactions, credits>>

\* The rows the route writes after the gateway answered: none (the session
\* is never committed)
VerifyWrites(p, outcome) == UNCHANGED <<wallets, transactions, credits>>

\* route verify_transaction, lines 222-239: PaystackService.verify_transaction(reference)
\* and the response built from the gateway's answer
verify_transaction_gateway(p) ==
    /\ pc[p] = "verify_transaction_gateway"
    /\ \E answer \in GatewayAnswers, status \in GatewayStatuses :
         LET outcome == verify_transaction_outcome(answer, status)
         IN  /\ VerifyWrites(p, outcome)
             /\ IF outcome = "PaymentProcessingException"
                THEN Finish(p, [req[p] EXCEPT !.answer = answer, !.result = outcome])
                ELSE Finish(p, [req[p] EXCEPT !.answer = answer, !.result = "ok",
                                              !.returned = outcome])
    /\ UNCHANGED nreq

\* ------------------------------------------------------- specification
Step(p) ==
    \/ \E u \in Users, n \in RecipientNumbers, a \in Amounts : transfer_get_sender(p, u, n, a)
    \/ transfer_get_recipient(p)
    \/ transfer_commit(p)
    \/ \E u \in Users, a \in Amounts : initialize_deposit_get_wallet(p, u, a)
    \/ initialize_deposit_select(p)
    \/ initialize_deposit_gateway(p)
    \/ initialize_deposit_commit(p)
    \/ \E r \in References, s \in GatewayStatuses :
          webhook_delivery(p, "charge.success", r, s, SecretKey, s)
    \/ process_webhook_get_wallet(p)
    \/ process_webhook_commit(p)
    \/ process_webhook_refresh(p)
    \/ \E r \in References : verify_transaction_select(p, r)
    \/ verify_transaction_gateway(p)
    \/ \E u \in Users : create_wallet_select(p, u)
    \/ create_wallet_commit(p)

\* Requests run concurrently: any request takes its next step
Next == \E p \in Procs : Step(p) /\ UNCHANGED key_last

Spec == Init /\ [][Next]_vars

\* The routes with everything a client may send: amounts that are zero or
\* negative, deliveries of any event, signed with the secret or with another
\* key, or carrying the signature of a different body
RouteStep(p) ==
    \/ \E u \in Users, n \in RecipientNumbers, a \in RequestAmounts :
          transfer_get_sender(p, u, n, a)
    \/ transfer_get_recipient(p)
    \/ transfer_commit(p)
    \/ \E u \in Users, a \in RequestAmounts : initialize_deposit_get_wallet(p, u, a)
    \/ initialize_deposit_select(p)
    \/ initialize_deposit_gateway(p)
    \/ initialize_deposit_commit(p)
    \/ \E e \in Events, r \in References, s \in GatewayStatuses,
          k \in SigningKeys, signed \in GatewayStatuses :
          webhook_delivery(p, e, r, s, k, signed)
    \/ process_webhook_get_wallet(p)
    \/ process_webhook_commit(p)
    \/ process_webhook_refresh(p)

\* Requests run one after the other: a step is taken only while no other
\* request is in flight
Alone(p) == \A q \in Procs \ {p} : Free(q)

NextRoutes == \E p \in Procs : Alone(p) /\ RouteStep(p) /\ UNCHANGED key_last

SpecRoutes == Init /\ [][NextRoutes]_vars

NextSerial == \E p \in Procs : Alone(p) /\ Step(p) /\ UNCHANGED key_last

SpecSerial == Init /\ [][NextSerial]_vars

\* ------------------------------------------------- transaction history
ledger_vars == <<wallets, transactions, pc, req, last, credits, nreq>>

\* A pending deposit of amount 1 that initialize_deposit stored for user_id
StoredDeposit(user_id, reference) ==
    DepositTransaction([NoRequest EXCEPT
        !.user_id = user_id,
        !.sender_id = IF user_id = "u1" THEN 1 ELSE 2,
        !.amount = 1, !.reference = reference,
        !.url = AuthorizationUrl(reference)])

\* The ledgers the history is read from: u1 and u2 hold wallets and made
\* deposits that are still pending; created_at is the time each Transaction
\* object was built (default_factory=datetime.utcnow), so two rows may carry
\* the same time
HistoryInit ==
    /\ wallets = << Wallet("u1", "0000000000001"), Wallet("u2", "0000000000002") >>
    /\ credits = [r \in References |-> 0]
    /\ \E S \in SUBSET HistoryRefs :
          \E owner \in [S -> {"u1", "u2"}], at \in [S -> Times] :
             /\ transactions = [r \in S |-> StoredDeposit(owner[r], r)]
             /\ created_at = at
    /\ pc = [p \in Procs |-> "idle"]
    /\ req = [p \in Procs |-> NoRequest]
    /\ last = NoRequest
    /\ nreq = 0
    /\ listing = NoListing
    /\ api_keys = << >>
    /\ key_calls = [p \in Procs |-> NoKeyCall]
    /\ key_last = NoKeyCall
    /\ now = 1
    /\ NoTokens
    /\ conversion = NoConversion

\* Query(ge=1) for page, Query(ge=1, le=100) for page_size
ValidPagination(page, page_size) ==
    page >= 1 /\ page_size >= 1 /\ page_size <= PAGE_SIZE_LIMIT

\* (variant: the offset of the page after the one asked for)
offset_of_next_page(page, page_size) == page * page_size

\* PaginationParams.offset
offset(page, page_size) == (page - 1) * page_size

\* PaginationParams.limit
limit(page, page_size) == page_size

\* PaginatedResponse.create, line 51
total_pages(total, page_size) ==
    IF total > 0 THEN (total + page_size - 1) \div page_size ELSE 0

\* where(Transaction.user_id == user_id)
TransactionsOfUser(user_id) ==
    {r \in DOMAIN transactions : transactions[r].user_id = user_id}

\* order_by(desc(Transaction.created_at)): the orders the database may return
\* the rows of S in; rows of equal created_at come in any order
NewestFirst(S) ==
    {s \in [1..Cardinality(S) -> S] :
        /\ \A i, j \in DOMAIN s : i < j => s[i] # s[j]
        /\ \A i, j \in DOMAIN s : i < j => created_at[s[i]] >= created_at[s[j]]}

\* .offset(off).limit(lim) of the ordered rows
OffsetLimit(s, off, lim) ==
    [i \in 1..(IF Len(s) - off < 0 THEN 0
               ELSE IF Len(s) - off < lim THEN Len(s) - off ELSE lim) |-> s[off + i]]

\* route get_transactions: page and page_size are validated, then
\* get_user_transactions executes the count statement (lines 362-368)
get_transactions(user_id, page, page_size) ==
    /\ listing.pc = "idle"
    /\ LET c == [NoListing EXCEPT !.user_id = user_id, !.page = page,
                                  !.page_size = page_size]
       IN  IF ~ValidPagination(page, page_size)
           THEN listing' = [c EXCEPT !.result = "ValidationError"]
           ELSE listing' = [c EXCEPT !.pc = "get_user_transactions_select",
                                     !.total = Cardinality(TransactionsOfUser(user_id))]
    /\ UNCHANGED <<ledger_vars, created_at, keys_vars, now, auth_vars, amount_vars>>

\* get_user_transactions executes the select (lines 370-378) and returns;
\* the route builds the PaginatedResponse
get_user_transactions_select ==
    /\ listing.pc = "get_user_transactions_select"
    /\ \E s \in NewestFirst(TransactionsOfUser(listing.user_id)) :
          listing' = [listing EXCEPT
              !.pc = "idle",
              !.items = OffsetLimit(s, offset(listing.page, listing.page_size),
                                       limit(listing.page, listing.page_size)),
              !.total_pages = total_pages(listing.total, listing.page_size),
              !.result = "ok"]
    /\ UNCHANGED <<ledger_vars, created_at, keys_vars, now, auth_vars, amount_vars>>

NextHistory ==
    \/ \E u \in Users, page \in Pages, page_size \in PageSizes :
          get_transactions(u, page, page_size)
    \/ get_user_transactions_select

SpecHistory == HistoryInit /\ [][NextHistory]_vars

\* -------------------------------------------------------------- API keys
\* APIKey(...) built by create_api_key and rollover_api_key
APIKey(user_id, permissions, expires_at) ==
    [user_id |-> user_id, permissions |-> permissions, expires_at |-> expires_at,
     revoked |-> FALSE]

\* u1 created API_KEY_MAX_PER_USER - 1 keys that live until MaxNow and holds
\* a key that expires at the first tick; u2 holds one key
KeysInit ==
    /\ Fresh
    /\ pc = [p \in Procs |-> "idle"]
    /\ req = [p \in Procs |-> NoRequest]
    /\ last = NoRequest
    /\ nreq = 0
    /\ created_at = << >>
    /\ listing = NoListing
    /\ api_keys = [i \in 1..(API_KEY_MAX_PER_USER - 1) |->
                        APIKey("u1", Permissions, MaxNow)]
                     \o << APIKey("u1", Permissions, 1), APIKey("u2", Permissions, MaxNow) >>
    /\ key_calls = [p \in Procs |-> NoKeyCall]
    /\ key_last = NoKeyCall
    /\ now = 1
    /\ NoTokens
    /\ conversion = NoConversion

\* select(APIKey).where(user_id == user_id, revoked == False,
\*                      expires_at > datetime.utcnow())
ActiveKeys(user_id) ==
    {i \in DOMAIN api_keys : /\ api_keys[i].user_id = user_id
                             /\ ~api_keys[i].revoked
                             /\ api_keys[i].expires_at > now}

\* len(active_keys) >= settings.API_KEY_MAX_PER_USER
KeyLimitReached(active) == active >= API_KEY_MAX_PER_USER

\* parse_expiry: datetime.utcnow() + timedelta
parse_expiry(expiry) == now + expiry

InFlight == {q \in Procs : key_calls[q].pc # "idle"}

\* A new request takes the lowest free slot; the table has room for the
\* rows of the requests in flight
CanStartKeyCall(p) ==
    /\ key_calls[p].pc = "idle"
    /\ \A q \in Procs : q < p => key_calls[q].pc # "idle"
    /\ Len(api_keys) + Cardinality(InFlight) < MaxKeys

\* The request returns or raises
KeyFinish(p, r) ==
    /\ key_calls' = [key_calls EXCEPT ![p] = NoKeyCall]
    /\ key_last' = [r EXCEPT !.pc = "idle"]

\* The request is suspended at its next await
KeyGoto(p, label, r) ==
    /\ key_calls' = [key_calls EXCEPT ![p] = [r EXCEPT !.pc = label]]
    /\ key_last' = NoKeyCall

\* create_api_key, lines 53-59: the select of the active keys
create_api_key_select(p, user_id, permissions, expiry) ==
    /\ CanStartKeyCall(p)
    /\ KeyGoto(p, "create_api_key_commit",
               [NoKeyCall EXCEPT !.op = "create_api_key", !.user_id = user_id,
                                 !.permissions = permissions,
                                 !.expiry = expiry,
                                 !.active = Cardinality(ActiveKeys(user_id))])
    /\ UNCHANGED <<api_keys, now, ledger_vars, history_vars, auth_vars, amount_vars>>

\* create_api_key, lines 63-78: the limit check on the keys selected, then
\* session.add(api_key) and commit
create_api_key_commit(p) ==
    /\ key_calls[p].pc = "create_api_key_commit"
    /\ LET r == key_calls[p]
       IN  IF KeyLimitReached(r.active)
           THEN /\ KeyFinish(p, [r EXCEPT !.result = "APIKeyLimitException"])
                /\ UNCHANGED api_keys
           ELSE /\ api_keys' = Append(api_keys, APIKey(r.user_id, r.permissions,
                                                       parse_expiry(r.expiry)))
                /\ KeyFinish(p, [r EXCEPT !.result = "ok", !.key_id = Len(api_keys) + 1])
    /\ UNCHANGED <<now, ledger_vars, history_vars, auth_vars, amount_vars>>

\* rollover_api_key, line 107: session.get(APIKey, expired_key_id)
rollover_api_key_get(p, user_id, key_id, expiry) ==
    /\ CanStartKeyCall(p)
    /\ LET r == [NoKeyCall EXCEPT !.op = "rollover_api_key", !.user_id = user_id,
                                  !.expiry = expiry, !.key_id = key_id]
       IN  IF key_id \in DOMAIN api_keys
           THEN KeyGoto(p, "rollover_api_key_select",
                        [r EXCEPT !.found = TRUE,
                                  !.owner = api_keys[key_id].user_id,
                                  !.permissions = api_keys[key_id].permissions,
                                  !.expires_at = api_keys[key_id].expires_at])
           ELSE KeyGoto(p, "rollover_api_key_select", r)
    /\ UNCHANGED <<api_keys, now, ledger_vars, history_vars, auth_vars, amount_vars>>

\* rollover_api_key, lines 109-128: the key must be the user's and expired;
\* old_key.revoked = True in the session, then the select of the active keys
rollover_api_key_select(p) ==
    /\ key_calls[p].pc = "rollover_api_key_select"
    /\ LET r == key_calls[p]
       IN  IF ~r.found \/ r.owner # r.user_id
           THEN KeyFinish(p, [r EXCEPT !.result = "APIKeyNotFoundException"])
           ELSE IF r.expires_at > now
           THEN KeyFinish(p, [r EXCEPT !.result = "InvalidAPIKeyException"])
           ELSE KeyGoto(p, "rollover_api_key_commit",
                        [r EXCEPT !.active = Cardinality(ActiveKeys(r.user_id))])
    /\ UNCHANGED <<api_keys, now, ledger_vars, history_vars, auth_vars, amount_vars>>

\* rollover_api_key, lines 132-147: the limit check on the keys selected, then
\* session.add(new_key) and commit, which also writes old_key.revoked
rollover_api_key_commit(p) ==
    /\ key_calls[p].pc = "rollover_api_key_commit"
    /\ LET r == key_calls[p]
       IN  IF KeyLimitReached(r.active)
           THEN /\ KeyFinish(p, [r EXCEPT !.result = "APIKeyLimitException"])
                /\ UNCHANGED api_keys
           ELSE /\ api_keys' = Append([api_keys EXCEPT ![r.key_id].revoked = TRUE],
                                      APIKey(r.user_id, r.permissions,
                                             parse_expiry(r.expiry)))
                /\ KeyFinish(p, [r EXCEPT !.result = "ok"])
    /\ UNCHANGED <<now, ledger_vars, history_vars, auth_vars, amount_vars>>

\* Time passes
Tick ==
    /\ now < MaxNow
    /\ now' = now + 1
    /\ key_last' = NoKeyCall
    /\ UNCHANGED <<api_keys, key_calls, ledger_vars, history_vars, auth_vars, amount_vars>>

KeyStep(p) ==
    \/ \E u \in KeyOwners, e \in Expiries : create_api_key_select(p, u, Permissions, e)
    \/ create_api_key_commit(p)
    \/ \E u \in KeyOwners, k \in 0..MaxKeys, e \in Expiries :
          rollover_api_key_get(p, u, k, e)
    \/ rollover_api_key_select(p)
    \/ rollover_api_key_commit(p)

NextKeys == (\E p \in Procs : KeyStep(p)) \/ Tick

SpecKeys == KeysInit /\ [][NextKeys]_vars

\* ------------------------------------------------------------------ JWTs
\* jwt.decode: the token is one that was issued (the signature verifies) and
\* python-jose raises ExpiredSignatureError when exp < now
Decode(jti) ==
    IF jti \notin DOMAIN tokens THEN "InvalidTokenException"
    ELSE IF tokens[jti] < now THEN "TokenExpiredException"
    ELSE "ok"

\* client.exists("revoked_token:<jti>"): Redis drops the key when its TTL ends
Exists(jti) == jti \in DOMAIN revoked_tokens /\ revoked_tokens[jti] > now

\* redis_client.is_token_revoked: False when the call raises
is_token_revoked(jti) == redis_up /\ Exists(jti)

\* verify_jwt_token, lines 81-107: what the call returns or raises
VerifyOutcome(jti) ==
    IF Decode(jti) # "ok" THEN Decode(jti)
    ELSE IF is_token_revoked(jti) THEN "TokenRevokedException"
    ELSE "ok"

\* create_jwt_token at login: a token with a fresh jti, exp = now + lifetime
create_jwt_token(jti) ==
    /\ jti \notin DOMAIN tokens
    /\ tokens' = [x \in DOMAIN tokens \cup {jti} |->
                    IF x = jti THEN now + TOKEN_LIFETIME ELSE tokens[x]]
    /\ auth_last' = [NoTokenCall EXCEPT !.op = "create_jwt_token", !.jti = jti,
                                        !.at = now, !.result = "ok"]
    /\ UNCHANGED <<revoked_tokens, redis_up, logged_out, now,
                   ledger_vars, history_vars, keys_vars, amount_vars>>

\* verify_jwt_token(token), as get_current_user calls it for every request
verify_jwt_token(jti) ==
    /\ auth_last' = [NoTokenCall EXCEPT !.op = "verify_jwt_token", !.jti = jti,
                                        !.at = now, !.result = VerifyOutcome(jti)]
    /\ UNCHANGED <<tokens, revoked_tokens, redis_up, logged_out, now,
                   ledger_vars, history_vars, keys_vars, amount_vars>>

\* route logout: get_current_user verifies the token, then revoke_jwt_token:
\* ttl = int(exp - current_time); nothing is stored when ttl <= 0; otherwise
\* client.setex(key, ttl, "revoked"), whose failure the route answers with
\* LOGOUT_FAILED
logout(jti) ==
    /\ LET c == [NoTokenCall EXCEPT !.op = "logout", !.jti = jti, !.at = now]
       IN  IF VerifyOutcome(jti) # "ok"
           THEN /\ auth_last' = [c EXCEPT !.result = VerifyOutcome(jti)]
                /\ UNCHANGED <<revoked_tokens, logged_out>>
           ELSE LET ttl == tokens[jti] - now
                IN  IF ttl <= 0
                    THEN /\ auth_last' = [c EXCEPT !.result = "Token already expired"]
                         /\ UNCHANGED <<revoked_tokens, logged_out>>
                    ELSE IF ~redis_up
                    THEN /\ auth_last' = [c EXCEPT !.result = "LOGOUT_FAILED"]
                         /\ UNCHANGED <<revoked_tokens, logged_out>>
                    ELSE /\ revoked_tokens' =
                              [x \in DOMAIN revoked_tokens \cup {jti} |->
                                  IF x = jti THEN now + ttl ELSE revoked_tokens[x]]
                         /\ logged_out' = logged_out \cup {jti}
                         /\ auth_last' = [c EXCEPT !.result = "Successfully revoked token"]
    /\ UNCHANGED <<tokens, redis_up, now, ledger_vars, history_vars, keys_vars, amount_vars>>

\* Redis becomes unreachable
RedisFails ==
    /\ redis_up
    /\ redis_up' = FALSE
    /\ UNCHANGED <<tokens, revoked_tokens, logged_out, auth_last, now,
                   ledger_vars, history_vars, keys_vars, amount_vars>>

\* Redis is reachable again, with the keys it held
RedisRecovers ==
    /\ ~redis_up
    /\ redis_up' = TRUE
    /\ UNCHANGED <<tokens, revoked_tokens, logged_out, auth_last, now,
                   ledger_vars, history_vars, keys_vars, amount_vars>>

NextAuth ==
    \/ \E jti \in Jtis : create_jwt_token(jti)
    \/ \E jti \in Jtis : verify_jwt_token(jti)
    \/ \E jti \in Jtis : logout(jti)
    \/ RedisFails
    \/ RedisRecovers
    \/ Tick

\* The fresh ledger; no token was issued yet
AuthInit == Init /\ transactions = << >>

SpecAuth == AuthInit /\ [][NextAuth]_vars


\* ------------------------------------------------------- ledger sums
RECURSIVE Sum(_, _)
Sum(f, S) == IF S = {} THEN 0
             ELSE LET x == CHOOSE y \in S : TRUE IN f[x] + Sum(f, S \ {x})

SumOfBalances == Sum([i \in DOMAIN wallets |-> wallets[i].balance], DOMAIN wallets)

SuccessfulDeposits ==
    {r \in DOMAIN transactions :
        transactions[r].type = "deposit" /\ transactions[r].status = "success"}

SumOfSuccessfulDeposits ==
    Sum([r \in DOMAIN transactions |-> transactions[r].amount], SuccessfulDeposits)

\* What was committed for wallet i: every deposit credit, every transfer to
\* its number, every transfer out of it
DepositsOf(i) ==
    {r \in DOMAIN transactions :
        transactions[r].type = "deposit" /\ transactions[r].wallet_id = i}

TransfersTo(i) ==
    {r \in DOMAIN transactions :
        /\ transactions[r].type = "transfer"
        /\ transactions[r].recipient_wallet_number = wallets[i].wallet_number}

TransfersFrom(i) ==
    {r \in DOMAIN transactions :
        transactions[r].type = "transfer" /\ transactions[r].wallet_id = i}

CommittedBalance(i) ==
    LET amount == [r \in DOMAIN transactions |-> transactions[r].amount]
        credited == [r \in DOMAIN transactions |-> credits[r] * transactions[r].amount]
    IN  Sum(credited, DepositsOf(i)) + Sum(amount, TransfersTo(i))
          - Sum(amount, TransfersFrom(i))

\* ----------------------------------------------------------------- C1
\* C1: in every reachable state the balance of every wallet is >= 0.
BalanceNeverNegative == \A i \in DOMAIN wallets : wallets[i].balance >= 0

\* A transfer committed after another transfer of the same sender had
\* already debited the wallet, and the balance is 0
OverlappedDebitReachesZero ==
    /\ last.op = "transfer" /\ last.result = "ok" /\ last.debited > 0
    /\ wallets[last.sender_id].balance = 0

\* ----------------------------------------------------------------- C2
\* C2: the sum of all wallet balances always equals the sum of the amounts of
\* the deposit transactions whose status is success.
MoneyConserved == SumOfBalances = SumOfSuccessfulDeposits

\* ----------------------------------------------------------------- C3
\* C3: a transfer never succeeds when the transfers of the same sender that
\* committed since it read the sender's balance, together with its own
\* amount, exceed that balance.
OverlappingTransfersNeverBothSucceed ==
    (last.op = "transfer" /\ last.result = "ok")
        => last.amount + last.debited <= last.sender_balance

\* ----------------------------------------------------------------- C4
\* C4: whatever webhook deliveries overlap, a wallet is credited at most once
\* for each of its deposits: as long as no transfer has been recorded, its
\* balance is at most the sum of the amounts of its deposits, each counted once.
NoTransfers == \A r \in DOMAIN transactions : transactions[r].type # "transfer"

CreditedAtMostOnce ==
    NoTransfers
        => \A i \in DOMAIN wallets :
              wallets[i].balance <=
                  Sum([r \in DOMAIN transactions |-> transactions[r].amount], DepositsOf(i))

\* ----------------------------------------------------------------- C5
\* C5: the balance of every wallet equals its initial balance 0.00 plus every
\* committed credit minus every committed debit (no lost update).
NoLostUpdate == \A i \in DOMAIN wallets : wallets[i].balance = CommittedBalance(i)

\* ----------------------------------------------------------------- C6
\* C6: with the calls made one after the other, process_webhook with status
\* success on a stored reference returns the transaction with status success
\* without an error, and a deposit has then been credited exactly once.
SequentialWebhookIdempotent ==
    /\ \A r \in References : credits[r] <= 1
    /\ (last.op = "process_webhook" /\ last.status = "success" /\ Stored(last.reference))
        => /\ last.result = "ok"
           /\ last.returned = "success"
           /\ transactions[last.reference].status = "success"
           /\ transactions[last.reference].type = "deposit"
                => /\ credits[last.reference] = 1
                   /\ wallets[last.txn_wallet_id].balance = CommittedBalance(last.txn_wallet_id)

\* The second delivery: process_webhook with status success found the deposit
\* already success and returned
SecondDeliveryReturned ==
    /\ last.op = "process_webhook" /\ last.status = "success"
    /\ last.txn_status = "success" /\ last.result = "ok"
    /\ transactions[last.reference].type = "deposit"
    /\ credits[last.reference] = 1
    /\ nreq = MaxRequests

\* ----------------------------------------------------------------- C7
\* C7: once the status of a transaction is success it is success in every
\* later state.
SuccessIsTerminal ==
    [][\A r \in DOMAIN transactions :
          transactions[r].status = "success" => transactions'[r].status = "success"]_vars

\* ----------------------------------------------------------------- C8
\* C8: once the status of a transaction is failed, no later process_webhook
\* call changes it.
FailedIsTerminal ==
    [][\A r \in DOMAIN transactions :
          transactions[r].status = "failed" => transactions'[r].status = "failed"]_vars

\* ----------------------------------------------------------------- C9
\* What one step makes visible
Inserted == DOMAIN transactions' \ DOMAIN transactions

BecameSuccess ==
    {r \in DOMAIN transactions :
        transactions[r].status # "success" /\ transactions'[r].status = "success"}

TransferLandsWhole ==
    (last'.op = "transfer" /\ last'.result = "ok")
        => /\ Inserted = {last'.reference}
           /\ transactions'[last'.reference].type = "transfer"
           /\ transactions'[last'.reference].status = "success"
           /\ wallets'[last'.sender_id].balance = last'.sender_balance - last'.amount
           /\ wallets'[last'.recipient_id].balance = last'.recipient_balance + last'.amount

FailedTransferLandsNothing ==
    (last'.op = "transfer" /\ last'.result # "ok")
        => UNCHANGED <<wallets, transactions>>

BalanceChangesOnlyWhole ==
    (\E i \in DOMAIN wallets : wallets'[i].balance # wallets[i].balance)
        => \/ /\ last'.op = "transfer" /\ last'.result = "ok"
              /\ Inserted = {last'.reference}
           \/ \E p \in Procs :
                /\ pc[p] = "process_webhook_commit"
                /\ transactions'[req[p].reference].status = "success"

SuccessLandsWithCredit ==
    \A r \in BecameSuccess :
        \E p \in Procs :
            /\ pc[p] = "process_webhook_commit" /\ req[p].reference = r
            /\ wallets'[transactions[r].wallet_id].balance =
                   req[p].wallet_balance + transactions[r].amount

InsertionOnlyWhole ==
    \A r \in Inserted :
        transactions'[r].type = "transfer"
            => last'.op = "transfer" /\ last'.result = "ok" /\ last'.reference = r

\* C9: every step applies a multi-entity mutation whole or not at all.  A
\* transfer that returns has inserted its transaction, debited the sender and
\* credited the recipient; a transfer that fails (also on a reference
\* collision at commit) has changed nothing; a balance changes only together
\* with the insertion of a transfer or with a deposit being success; and a
\* deposit that becomes success has its wallet credited in the same step.
MutationsAreAtomic ==
    [][/\ TransferLandsWhole
       /\ FailedTransferLandsNothing
       /\ BalanceChangesOnlyWhole
       /\ SuccessLandsWithCredit
       /\ InsertionOnlyWhole]_vars

\* A transfer whose commit failed on a reference collision, after balances
\* had been changed on its loaded objects
TransferCommitCollided ==
    /\ last.op = "transfer" /\ last.result = "IntegrityError"
    /\ Stored(last.reference)

\* ---------------------------------------------------------------- C10
\* The steps of initialize_deposit, and the row a successful one adds
DepositStep ==
    \/ last'.op = "initialize_deposit"
    \/ \E p \in Procs :
         /\ pc'[p] # pc[p]
         /\ pc'[p] \in {"initialize_deposit_select", "initialize_deposit_gateway",
                        "initialize_deposit_commit"}

DepositAdded ==
    /\ Inserted = {last'.reference}
    /\ \A r \in DOMAIN transactions : transactions'[r] = transactions[r]
    /\ LET t == transactions'[last'.reference]
       IN  /\ t.type = "deposit" /\ t.status = "pending"
           /\ t.reference = last'.reference
           /\ t.paystack_reference = last'.reference
           /\ t.payment_url = last'.url /\ last'.url # << >>
           /\ t.amount = last'.amount /\ t.user_id = last'.user_id

\* C10: no step of initialize_deposit changes a balance; when it succeeds it
\* adds exactly one transaction, of kind deposit and status pending, carrying
\* the returned reference, the gateway reference and the payment link; when
\* it fails it adds none.
InitializeDepositOnlyAddsPending ==
    [][DepositStep
         => /\ \A i \in DOMAIN wallets : wallets'[i].balance = wallets[i].balance
            /\ DOMAIN wallets' = DOMAIN wallets
            /\ IF last'.op = "initialize_deposit" /\ last'.result = "ok"
               THEN DepositAdded
               ELSE transactions' = transactions]_vars

\* initialize_deposit returned its reference and payment link for a wallet
\* that holds a balance
DepositInitialized ==
    /\ last.op = "initialize_deposit" /\ last.result = "ok"
    /\ Stored(last.reference)
    /\ wallets[last.sender_id].balance > 0

\* ---------------------------------------------------------------- C11
\* The steps of the route verify_transaction
VerifyStep ==
    \/ last'.op = "verify_transaction"
    \/ \E p \in Procs : pc[p] = "idle" /\ pc'[p] = "verify_transaction_gateway"

\* C11: verify_transaction only reads the ledger.  For every reference and
\* every answer of the gateway, also the answer success for a deposit that is
\* pending locally, no step of it changes a wallet (so no balance) or a
\* transaction (so no status).
VerifyTransactionReadOnly ==
    [][VerifyStep => UNCHANGED <<wallets, transactions>>]_vars

\* The gateway answered success for a deposit that is still pending locally
VerifiedPaidWhilePending ==
    /\ last.op = "verify_transaction" /\ last.result = "ok"
    /\ last.returned = "success"
    /\ transactions[last.reference].status = "pending"
    /\ transactions[last.reference].type = "deposit"

\* ---------------------------------------------------------------- C12
\* A deposit of wallet i became success in this step
DepositReconciledFor(i) ==
    \E r \in BecameSuccess :
        transactions[r].type = "deposit" /\ transactions[r].wallet_id = i

\* A success transfer naming wallet i as recipient was inserted in this step
TransferInsertedTo(i) ==
    \E r \in Inserted :
        /\ transactions'[r].type = "transfer" /\ transactions'[r].status = "success"
        /\ transactions'[r].recipient_wallet_number = wallets[i].wallet_number

\* A success transfer naming wallet i as sender was inserted in this step
TransferInsertedFrom(i) ==
    \E r \in Inserted :
        /\ transactions'[r].type = "transfer" /\ transactions'[r].status = "success"
        /\ transactions'[r].sender_wallet_number = wallets[i].wallet_number

\* C12: a balance changes only through deposit reconciliation and transfer.
\* In every step, a wallet's balance increases only if a deposit of that
\* wallet became success or a success transfer naming it as recipient was
\* inserted in that step, and decreases only if a success transfer naming it
\* as sender was inserted in that step; and no step deletes a wallet.
BalanceChangesOnlyByLedger ==
    [][\A i \in DOMAIN wallets :
          /\ i \in DOMAIN wallets'
          /\ wallets'[i].user_id = wallets[i].user_id
          /\ wallets'[i].wallet_number = wallets[i].wallet_number
          /\ wallets'[i].balance > wallets[i].balance
                => DepositReconciledFor(i) \/ TransferInsertedTo(i)
          /\ wallets'[i].balance < wallets[i].balance
                => TransferInsertedFrom(i)]_vars

\* ---------------------------------------------------------------- C13
\* C13: a transfer of amount a from wallet S to a different wallet R that
\* succeeds decreases S's balance by exactly a, increases R's balance by
\* exactly a, leaves every other wallet unchanged, and records exactly one
\* new transaction: a transfer with status success carrying both wallet
\* numbers and the amount a.
TransferMovesExactlyAmount ==
    [][(last'.op = "transfer" /\ last'.result = "ok")
         => LET S == last'.sender_id
                R == last'.recipient_id
                a == last'.amount
            IN  /\ S # R
                /\ DOMAIN wallets' = DOMAIN wallets
                /\ wallets'[S].balance = wallets[S].balance - a
                /\ wallets'[R].balance = wallets[R].balance + a
                /\ \A i \in DOMAIN wallets \ {S, R} : wallets'[i] = wallets[i]
                /\ Inserted = {last'.reference}
                /\ \A r \in DOMAIN transactions : transactions'[r] = transactions[r]
                /\ LET t == transactions'[last'.reference]
                   IN  /\ t.type = "transfer" /\ t.status = "success"
                       /\ t.amount = a
                       /\ t.sender_wallet_number = wallets[S].wallet_number
                       /\ t.recipient_wallet_number = wallets[R].wallet_number]_vars

\* ---------------------------------------------------------------- C14
\* Request p commits a delivery with status success for a deposit it found pending
ReconcilesPending(p) ==
    /\ pc[p] = "process_webhook_commit" /\ pc'[p] = "process_webhook_refresh"
    /\ req[p].status = "success"
    /\ req[p].txn_status = "pending"
    /\ transactions[req[p].reference].type = "deposit"

\* C14: process_webhook with status success on a pending deposit sets the
\* transaction's status to success and increases the owning wallet's balance
\* by exactly the transaction's amount, leaving every other wallet and every
\* other transaction unchanged.
WebhookCreditsExactlyAmount ==
    [][\A p \in Procs :
          ReconcilesPending(p)
            => LET ref == req[p].reference
                   t == transactions[ref]
                   w == t.wallet_id
               IN  /\ transactions'[ref] = [t EXCEPT !.status = "success"]
                   /\ wallets'[w].balance = wallets[w].balance + t.amount
                   /\ \A i \in DOMAIN wallets \ {w} : wallets'[i] = wallets[i]
                   /\ DOMAIN wallets' = DOMAIN wallets
                   /\ DOMAIN transactions' = DOMAIN transactions
                   /\ \A r \in DOMAIN transactions \ {ref} :
                         transactions'[r] = transactions[r]]_vars

\* ---------------------------------------------------------------- C15
\* C15: a transfer whose amount is greater than the sender's balance (the
\* balance the transfer found when it was called, with both wallets
\* resolved) is rejected with InsufficientBalance, and in the step that
\* rejects it no wallet balance changes and no transaction is recorded.
OverdraftRejected ==
    [][(/\ last'.op = "transfer"
        /\ last'.sender_id # 0 /\ last'.recipient_id # 0
        /\ last'.amount > last'.sender_balance)
         => /\ last'.result = "InsufficientBalance"
            /\ UNCHANGED <<wallets, transactions>>]_vars

\* A transfer to another wallet was rejected for an amount above the balance
\* the sender holds
OverdraftAttempted ==
    /\ last.op = "transfer" /\ last.result = "InsufficientBalance"
    /\ last.recipient_id # last.sender_id
    /\ last.amount > wallets[last.sender_id].balance
    /\ wallets[last.sender_id].balance > 0

\* ---------------------------------------------------------------- C16
\* C16: a transfer whose recipient wallet number resolves to the sender's own
\* wallet is rejected for every amount, and the step that rejects it changes
\* no wallet balance and records no transaction.
SelfTransferRejected ==
    [][(/\ last'.op = "transfer"
        /\ last'.sender_id # 0
        /\ last'.recipient_id = last'.sender_id)
         => /\ last'.result \in {"InsufficientBalance", "WalletNotFound"}
            /\ UNCHANGED <<wallets, transactions>>]_vars

\* A transfer to the sender's own wallet was rejected although the balance
\* covers the amount
SelfTransferAttempted ==
    /\ last.op = "transfer" /\ last.result = "WalletNotFound"
    /\ last.sender_id # 0 /\ last.recipient_id = last.sender_id
    /\ last.amount <= wallets[last.sender_id].balance

\* ---------------------------------------------------------------- C17
\* Every stored row is kept by this step: it stays stored and only its
\* status may differ
RowsKept ==
    \A r \in DOMAIN transactions :
        /\ r \in DOMAIN transactions'
        /\ [transactions'[r] EXCEPT !.status = transactions[r].status] = transactions[r]

\* Every row is stored under the reference it carries
StoredUnderOwnReference ==
    \A r \in DOMAIN transactions : transactions[r].reference = r

\* C17: references are unique.  In every reachable state each stored
\* transaction is the only one under its reference, and no step overwrites or
\* merges a stored transaction: an insertion under a stored reference is
\* refused, so every stored row keeps everything but its status.
ReferencesUnique ==
    [][RowsKept /\ StoredUnderOwnReference']_vars

\* Two initialize_deposit calls generated the same reference while it was
\* absent; the later commit was refused by the unique index
InsertRefused ==
    /\ last.op = "initialize_deposit" /\ last.result = "IntegrityError"
    /\ Stored(last.reference)
    /\ transactions[last.reference].amount # last.amount

\* ---------------------------------------------------------------- C18
\* Request p ends in this step on creating a transaction under a reference
\* that is stored: at the lookup of initialize_deposit, or at the commit of
\* initialize_deposit or transfer
CreatesStoredReference(p) ==
    /\ pc[p] \in {"initialize_deposit_select", "initialize_deposit_commit",
                  "transfer_commit"}
    /\ pc'[p] = "idle"
    /\ last'.reference # "none"
    /\ Stored(last'.reference)

\* C18: whenever initialize_deposit or transfer tries to create a transaction
\* whose reference is already stored, also when the other call stored it
\* while this one was running, the attempt fails with DuplicateTransaction
\* and the step changes no wallet balance.
DuplicateReferenceRejected ==
    [][\A p \in Procs :
          CreatesStoredReference(p)
            => /\ last'.result = "DuplicateTransaction"
               /\ UNCHANGED wallets]_vars

\* ---------------------------------------------------------------- C19
\* C19: one wallet per user.  In every reachable state, also after
\* overlapping create_wallet calls for the same user, no user owns more than
\* one wallet.
OneWalletPerUser ==
    \A u \in Users : Cardinality(WalletsOfUser(u)) <= 1

\* ---------------------------------------------------------------- C20
\* Request p commits a delivery with a status other than success for a
\* deposit it found pending
RejectsPending(p) ==
    /\ pc[p] = "process_webhook_commit" /\ pc'[p] = "process_webhook_refresh"
    /\ req[p].status # "success"
    /\ req[p].txn_status = "pending"
    /\ transactions[req[p].reference].type = "deposit"

\* C20: process_webhook with any gateway status other than success on a
\* pending deposit sets the transaction's status to failed and leaves every
\* wallet balance unchanged.
NonSuccessMarksFailed ==
    [][\A p \in Procs :
          RejectsPending(p)
            => /\ transactions'[req[p].reference].status = "failed"
               /\ wallets' = wallets]_vars

\* A delivery with status abandoned was processed for a pending deposit while
\* a wallet holds a balance
AbandonedDeliveryProcessed ==
    /\ last.op = "process_webhook" /\ last.result = "ok"
    /\ last.status = "abandoned" /\ last.txn_status = "pending"
    /\ last.returned = "failed"
    /\ \E i \in DOMAIN wallets : wallets[i].balance > 0

\* ---------------------------------------------------------------- C21
\* C21: process_webhook called with a reference that matches no stored
\* transaction fails with TransactionNotFound, and the step leaves every
\* wallet and every transaction unchanged: no transaction is created for the
\* unknown reference.
UnknownReferenceRejected ==
    [][(last'.op = "process_webhook" /\ ~Stored(last'.reference))
         => /\ last'.result = "TransactionNotFound"
            /\ UNCHANGED <<wallets, transactions>>]_vars

\* A delivery with status success named a reference that is not stored,
\* while another deposit is pending
UnknownReferenceDelivered ==
    /\ last.op = "process_webhook" /\ last.result = "TransactionNotFound"
    /\ last.status = "success"
    /\ ~Stored(last.reference)
    /\ \E r \in DOMAIN transactions : transactions[r].status = "pending"

\* ---------------------------------------------------------------- C22
\* A transfer is called by user u in this step
TransferCalledBy(u) ==
    /\ nreq' = nreq + 1
    /\ \/ last'.op = "transfer" /\ last'.user_id = u
       \/ \E p \in Procs : /\ pc[p] = "idle" /\ pc'[p] # "idle"
                            /\ req'[p].op = "transfer" /\ req'[p].user_id = u

\* Request p looks the recipient number up and no wallet carries it
TransferToUnknownNumber(p) ==
    /\ pc[p] = "transfer_get_recipient" /\ pc'[p] # pc[p]
    /\ WalletsOfNumber(req[p].number) = {}

\* C22: transfer fails with WalletNotFound when the sender user has no wallet
\* or when the recipient wallet number matches no wallet; in both cases the
\* step changes no balance and records no transaction.
MissingWalletRejected ==
    [][(\/ \E u \in Users : TransferCalledBy(u) /\ WalletsOfUser(u) = {}
        \/ \E p \in Procs : TransferToUnknownNumber(p))
         => /\ last'.op = "transfer"
            /\ last'.result = "WalletNotFound"
            /\ UNCHANGED <<wallets, transactions>>]_vars

\* A transfer that the sender's balance covers was rejected because no wallet
\* carries the recipient number
UnknownRecipientRejected ==
    /\ last.op = "transfer" /\ last.result = "WalletNotFound"
    /\ last.sender_id # 0 /\ last.recipient_id = 0
    /\ WalletsOfNumber(last.number) = {}
    /\ last.amount <= wallets[last.sender_id].balance

\* ---------------------------------------------------------------- C23
\* The webhook deliveries that arrive in this step: the delivery the route
\* answered at once, or the one it passed on to process_webhook
ArrivingDeliveries ==
    IF nreq' = nreq + 1
    THEN {d \in {last'} \cup {req'[p] : p \in {q \in Procs : pc[q] = "idle"}} :
             d.op \in {"paystack_webhook", "process_webhook"}}
    ELSE {}

SignatureMatches(d) ==
    d.signature = Hmac(SecretKey, Body(d.event, d.reference, d.status))

\* C23: a webhook delivery whose signature does not match the HMAC of its raw
\* body is rejected before any reconciliation, whatever reference and status
\* the body carries: the route answers INVALID_SIGNATURE, process_webhook is
\* not invoked, and every wallet and every transaction is unchanged.
UnsignedDeliveryRejected ==
    [][\A d \in ArrivingDeliveries :
          ~SignatureMatches(d)
            => /\ d = last'
               /\ d.op = "paystack_webhook"
               /\ d.result = "INVALID_SIGNATURE"
               /\ pc' = pc
               /\ UNCHANGED <<wallets, transactions>>]_vars

\* A delivery for a pending deposit said success but carried the signature
\* the secret gives for a body with another status
ReplayedSignatureRejected ==
    /\ last.op = "paystack_webhook" /\ last.result = "INVALID_SIGNATURE"
    /\ last.event = "charge.success" /\ last.status = "success"
    /\ last.signature[1] = SecretKey
    /\ Stored(last.reference)
    /\ transactions[last.reference].status = "pending"

\* ---------------------------------------------------------------- C24
\* initialize_deposit is called by user u in this step
DepositCalledBy(u) ==
    /\ nreq' = nreq + 1
    /\ \/ last'.op = "initialize_deposit" /\ last'.user_id = u
       \/ \E p \in Procs : /\ pc[p] = "idle" /\ pc'[p] # "idle"
                            /\ req'[p].op = "initialize_deposit" /\ req'[p].user_id = u

ArrivingFundsRequests ==
    IF nreq' = nreq + 1
    THEN {d \in {last'} \cup {req'[p] : p \in {q \in Procs : pc[q] = "idle"}} :
             d.op \in {"initialize_deposit", "transfer"}}
    ELSE {}

\* C25: every deposit or transfer request whose amount is zero or negative
\* is rejected at the boundary of the operation, before any gateway call and
\* before any mutation: the request ends in the step it arrives in, no
\* transaction is created and no balance changes.
NonPositiveAmountRejected ==
    [][\A d \in ArrivingFundsRequests :
          d.amount <= 0
            => /\ d = last'
               /\ d.result = "ValidationError"
               /\ pc' = pc
               /\ UNCHANGED <<wallets, transactions>>]_vars

\* A transfer of a negative amount between two wallets, the sender's holding
\* a balance, was rejected
NegativeTransferRejected ==
    /\ last.op = "transfer" /\ last.result = "ValidationError"
    /\ last.amount < 0
    /\ \E i \in WalletsOfUser(last.user_id) : wallets[i].balance > 0
    /\ \E j \in WalletsOfNumber(last.number) : wallets[j].user_id # last.user_id

\* ---------------------------------------------------------------- C26
\* The answer request p got from the gateway in this step
AnswerTo(p) == IF pc'[p] = "idle" THEN last'.answer ELSE req'[p].answer

\* Request p called the gateway for a charge in this step and the call failed
ChargeInitializationFailed(p) ==
    /\ pc[p] = "initialize_deposit_gateway" /\ pc'[p] # pc[p]
    /\ AnswerTo(p) # "200"

\* C26: when the gateway's charge initialization fails, initialize_deposit
\* fails with the gateway's error kind, NetworkException on a transport
\* failure and PaymentProcessingException on a non-success answer of the
\* provider; it makes no second attempt (the request ends in that step),
\* persists no transaction and changes no balance.
GatewayFailureFailsDeposit ==
    [][\A p \in Procs :
          ChargeInitializationFailed(p)
            => /\ pc'[p] = "idle"
               /\ last'.op = "initialize_deposit"
               /\ last'.result = IF last'.answer = "transport_error"
                                 THEN "NetworkException"
                                 ELSE "PaymentProcessingException"
               /\ UNCHANGED <<wallets, transactions>>]_vars

\* The gateway could not be reached for a deposit of a user who holds a
\* balance; the reference stays unused
GatewayUnreachable ==
    /\ last.op = "initialize_deposit" /\ last.answer = "transport_error"
    /\ last.result = "NetworkException"
    /\ ~Stored(last.reference)
    /\ wallets[last.sender_id].balance > 0

\* ---------------------------------------------------------------- C27
\* C27: verifying a charge has the failure modes of initializing one: a
\* transport failure while verifying a pending transaction is reported as
\* NetworkException, distinct from the error reported for a non-success
\* answer of the provider.
VerifyTransportFailureIsNetworkException ==
    (last.op = "verify_transaction" /\ last.answer = "transport_error")
        => last.result = "NetworkException"

\* ---------------------------------------------------------------- C28
\* The rows of the user who asked for the listing
Owned == TransactionsOfUser(listing.user_id)

\* The owned rows created after row r, and those created at or after it
CreatedAfter(r) == {x \in Owned : created_at[x] > created_at[r]}
CreatedNotBefore(r) == {x \in Owned : created_at[x] >= created_at[r]}

\* The number of rows left from the offset of the page on
LeftFromOffset ==
    LET left == Cardinality(Owned) - (listing.page - 1) * listing.page_size
    IN  IF left < 0 THEN 0 ELSE left

\* The response holds rows of the user only, each once, newest first, and
\* the i-th item has rank offset + i among the user's rows by creation time
ListedPageIsTheWindow ==
    LET items == listing.items
        off == (listing.page - 1) * listing.page_size
    IN  /\ \A i \in DOMAIN items : items[i] \in Owned
        /\ \A i, j \in DOMAIN items : i < j => items[i] # items[j]
        /\ \A i, j \in DOMAIN items :
              i < j => created_at[items[i]] >= created_at[items[j]]
        /\ Len(items) = IF LeftFromOffset < listing.page_size
                        THEN LeftFromOffset ELSE listing.page_size
        /\ \A i \in DOMAIN items :
              /\ Cardinality(CreatedAfter(items[i])) <= off + i - 1
              /\ Cardinality(CreatedNotBefore(items[i])) >= off + i

\* total_pages is the least number of pages of page_size that hold total rows
ListedTotalPagesIsCeiling ==
    IF listing.total = 0
    THEN listing.total_pages = 0
    ELSE /\ listing.total_pages * listing.page_size >= listing.total
         /\ (listing.total_pages - 1) * listing.page_size < listing.total

\* C28: the transaction history of a user for a page (page >= 1,
\* 1 <= page_size <= 100) holds only transactions of that user, newest first
\* by creation time, namely the at most page_size rows from offset
\* (page - 1) * page_size of that order; total is the number of all of the
\* user's transactions; total_pages is the ceiling of total / page_size, and
\* 0 when total is 0.
HistoryPageCorrect ==
    (/\ listing.pc = "idle" /\ listing.user_id # "none"
     /\ listing.page >= 1 /\ listing.page_size >= 1
     /\ listing.page_size <= PAGE_SIZE_LIMIT)
        => /\ listing.result = "ok"
           /\ ListedPageIsTheWindow
           /\ listing.total = Cardinality(Owned)
           /\ ListedTotalPagesIsCeiling

\* The second page of size 2 of a user with three transactions created at
\* three different times: one item, the oldest, and two pages in all
LastPageListed ==
    /\ listing.pc = "idle" /\ listing.result = "ok"
    /\ listing.page = 2 /\ listing.page_size = 2
    /\ listing.total = 3 /\ listing.total_pages = 2
    /\ Len(listing.items) = 1
    /\ \A x \in Owned \ {listing.items[1]} :
          created_at[x] > created_at[listing.items[1]]

\* ---------------------------------------------------------------- C29
\* C29: the number of active API keys (not revoked, not expired) of one user
\* never exceeds API_KEY_MAX_PER_USER, after any sequence and interleaving of
\* create_api_key and rollover_api_key calls of that user.
ActiveKeysWithinLimit ==
    \A u \in KeyOwners : Cardinality(ActiveKeys(u)) <= API_KEY_MAX_PER_USER

\* ---------------------------------------------------------------- C30
\* C30: after logout has revoked a JWT that has not expired, every later
\* verification of that token before its expiry is rejected with
\* TokenRevokedException, also when Redis is unreachable at that time.
RevokedTokenRejected ==
    (/\ auth_last.op = "verify_jwt_token"
     /\ auth_last.jti \in logged_out
     /\ auth_last.at < tokens[auth_last.jti])
        => auth_last.result = "TokenRevokedException"

\* ---------------------------------------------------------------- C31
\* C31: transfer makes the self-transfer check before the balance check: a
\* transfer to the sender's own wallet of an amount above the balance is
\* rejected as a self-transfer (WalletNotFound), not with InsufficientBalance.
SelfTransferCheckedFirst ==
    (/\ last.op = "transfer"
     /\ last.sender_id # 0
     /\ last.recipient_id = last.sender_id
     /\ last.amount > last.sender_balance)
        => last.result = "WalletNotFound"

\* ---------------------------------------------------------------- C32
\* Request p ends its transfer in this step
TransferDecided(p) == pc[p] = "transfer_commit" /\ pc'[p] = "idle"

\* C32: the insufficient-balance test is strict: a transfer of exactly the
\* sender's balance to a different, existing wallet (under a reference that is
\* not stored yet) succeeds and leaves the sender's balance at 0.00, and only
\* amounts strictly above the balance are rejected with InsufficientBalance.
BalanceTestIsStrict ==
    [][\A p \in Procs :
          TransferDecided(p)
            => /\ (/\ req[p].amount = req[p].sender_balance
                   /\ req[p].recipient_id # req[p].sender_id
                   /\ ~Stored(last'.reference))
                     => /\ last'.result = "ok"
                        /\ wallets'[req[p].sender_id].balance = 0
               /\ last'.result = "InsufficientBalance"
                     => req[p].amount > req[p].sender_balance]_vars

\* u1 sent the whole balance to another wallet and holds 0.00
WholeBalanceTransferred ==
    /\ last.op = "transfer" /\ last.result = "ok"
    /\ last.amount = last.sender_balance
    /\ last.amount > 0
    /\ last.recipient_id # last.sender_id
    /\ wallets[last.sender_id].balance = 0

\* ---------------------------------------------------------------- C33
\* The wallets user u holds
WalletsHeldBy(u) == {i \in DOMAIN wallets : wallets[i].user_id = u}

\* C33: with the calls made one after the other, create_wallet for a user who
\* already holds a wallet returns that wallet (its wallet number), creates no
\* wallet and changes no balance.
CreateWalletIdempotent ==
    [][\A u \in Users :
          (/\ last'.op = "create_wallet" /\ last'.user_id = u
           /\ WalletsHeldBy(u) # {})
            => /\ last'.result = "ok"
               /\ \E i \in WalletsHeldBy(u) : last'.number = wallets[i].wallet_number
               /\ UNCHANGED wallets]_vars

\* create_wallet was called for u1, whose wallet holds a balance, and
\* returned that wallet with the balance kept
ExistingWalletReturned ==
    /\ last.op = "create_wallet" /\ last.user_id = "u1" /\ last.result = "ok"
    /\ last.number = wallets[1].wallet_number
    /\ wallets[1].balance > 0
    /\ Cardinality(WalletsHeldBy("u1")) = 1

\* --------------------------------------------- the amount of a deposit
\* The body of POST /wallet/deposit carries the amount as a Decimal: the
\* digits of a coefficient and an exponent, coefficient * 10^exponent. The
\* gateway is paid in kobo, the ledger stores a Numeric of 15 digits, 2 of
\* them after the point.
MaxZeros == 27
MaxPlaces == 3
MaxExponent == 1
NUMERIC_DIGITS == 15

\* the precision of the arithmetic context of decimal: getcontext().prec
prec == 28

Zeros(n) == [i \in 1..n |-> 0]
Leads == {1, 9}
Tails == {<< >>, <<1>>, <<5>>, <<0, 1>>, <<5, 0>>, <<9, 9>>}
CoefficientDigits ==
    {<<0>>} \cup {<<lead>> \o Zeros(n) \o tail :
                     lead \in Leads, n \in 0..MaxZeros, tail \in Tails}
Exponents == (0 - MaxPlaces)..MaxExponent

Decimal(digits, exponent) == [digits |-> digits, exponent |-> exponent]

IsZero(digits) == \A i \in DOMAIN digits : digits[i] = 0

\* Decimal.normalize(): trailing zeros of the coefficient go to the exponent
RECURSIVE normalize(_)
normalize(d) ==
    IF IsZero(d.digits) THEN Decimal(<<0>>, 0)
    ELSE IF d.digits[Len(d.digits)] = 0
         THEN normalize(Decimal(SubSeq(d.digits, 1, Len(d.digits) - 1), d.exponent + 1))
         ELSE d

\* the digits after the decimal point of the normalized value
decimal_places(d) ==
    IF normalize(d).exponent < 0 THEN 0 - normalize(d).exponent ELSE 0

\* amount: Decimal = Field(..., gt=0, decimal_places=2)
DepositRequest(d) == ~IsZero(d.digits) /\ decimal_places(d) <= 2

\* the coefficient plus one
RECURSIVE Increment(_)
Increment(digits) ==
    IF digits = << >> THEN <<1>>
    ELSE IF digits[Len(digits)] = 9
         THEN Increment(SubSeq(digits, 1, Len(digits) - 1)) \o <<0>>
         ELSE SubSeq(digits, 1, Len(digits) - 1) \o <<digits[Len(digits)] + 1>>

\* ROUND_HALF_EVEN: whether the digits kept are rounded up for the digits dropped
RoundsUp(kept, dropped) ==
    LET rest_is_zero == \A i \in 2..Len(dropped) : dropped[i] = 0
    IN  \/ dropped[1] > 5
        \/ dropped[1] = 5 /\ ~rest_is_zero
        \/ dropped[1] = 5 /\ rest_is_zero /\ kept[Len(kept)] % 2 = 1

\* the result of an arithmetic operation is rounded to prec digits
RECURSIVE fix(_)
fix(d) ==
    IF Len(d.digits) <= prec THEN d
    ELSE LET kept == SubSeq(d.digits, 1, prec)
             dropped == SubSeq(d.digits, prec + 1, Len(d.digits))
         IN  fix(Decimal(IF RoundsUp(kept, dropped) THEN Increment(kept) ELSE kept,
                         d.exponent + Len(dropped)))

\* amount * 100: the coefficient times 100, the same exponent, then rounded
times_100(d) == fix(Decimal(d.digits \o <<0, 0>>, d.exponent))

\* int(): the integral part, the digits after the point are cut off
int(d) ==
    IF d.exponent >= 0 THEN d.digits \o Zeros(d.exponent)
    ELSE IF 0 - d.exponent >= Len(d.digits) THEN <<0>>
         ELSE SubSeq(d.digits, 1, Len(d.digits) + d.exponent)

\* amount_in_kobo = int(amount * 100)
amount_in_kobo(d) == int(times_100(d))

\* Transaction(amount=amount) in the Numeric column: the value in hundredths,
\* rounded half away from zero by the database
hundredths(d) ==
    IF d.exponent >= 0 - 2 THEN d.digits \o Zeros(d.exponent + 2)
    ELSE IF 0 - d.exponent - 2 >= Len(d.digits)
         THEN (IF 0 - d.exponent - 2 = Len(d.digits) /\ d.digits[1] >= 5
               THEN <<1>> ELSE <<0>>)
         ELSE LET kept == SubSeq(d.digits, 1, Len(d.digits) + d.exponent + 2)
              IN  IF d.digits[Len(kept) + 1] >= 5 THEN Increment(kept) ELSE kept

\* numeric field overflow: more than max_digits digits
NumericOverflow(d) == Len(hundredths(d)) > NUMERIC_DIGITS

amount_frame == <<ledger_vars, history_vars, keys_vars, now, auth_vars>>

\* the request body is validated against DepositRequest: 422 or the handler
deposit_request_validate ==
    /\ conversion.stage = "received"
    /\ conversion' =
          [conversion EXCEPT !.stage =
              IF DepositRequest(Decimal(conversion.digits, conversion.exponent))
              THEN "validated" ELSE "rejected"]
    /\ UNCHANGED amount_frame

\* initialize_deposit: the amount in kobo goes to the gateway
initialize_deposit_charge ==
    /\ conversion.stage = "validated"
    /\ conversion' =
          [conversion EXCEPT
              !.stage = "charged",
              !.amount_in_kobo =
                  amount_in_kobo(Decimal(conversion.digits, conversion.exponent))]
    /\ UNCHANGED amount_frame

\* initialize_deposit: the pending transaction is stored with the amount,
\* unless the database refuses the value
initialize_deposit_store ==
    /\ conversion.stage = "charged"
    /\ LET d == Decimal(conversion.digits, conversion.exponent)
       IN  conversion' =
              IF NumericOverflow(d)
              THEN [conversion EXCEPT !.stage = "DataError"]
              ELSE [conversion EXCEPT !.stage = "stored", !.stored = hundredths(d)]
    /\ UNCHANGED amount_frame

AmountInit ==
    /\ Fresh
    /\ pc = [p \in Procs |-> "idle"]
    /\ req = [p \in Procs |-> NoRequest]
    /\ last = NoRequest
    /\ nreq = 0
    /\ created_at = << >>
    /\ listing = NoListing
    /\ api_keys = << >>
    /\ key_calls = [p \in Procs |-> NoKeyCall]
    /\ key_last = NoKeyCall
    /\ now = 1
    /\ NoTokens
    /\ \E digits \in CoefficientDigits, exponent \in Exponents :
          conversion = [NoConversion EXCEPT !.stage = "received",
                                            !.digits = digits,
                                            !.exponent = exponent]

NextAmount ==
    \/ deposit_request_validate
    \/ initialize_deposit_charge
    \/ initialize_deposit_store

SpecAmount == AmountInit /\ [][NextAmount]_vars

\* C34: every deposit amount the request schema accepts reaches the gateway
\* as exactly amount x 100 minor units (nothing is cut off), and the amount
\* stored for the later credit equals the amount charged.
DepositAmountExact ==
    conversion.stage \in {"charged", "stored"} =>
        /\ normalize(Decimal(conversion.amount_in_kobo, 0))
              = normalize(Decimal(conversion.digits, conversion.exponent + 2))
        /\ conversion.stage = "stored" => conversion.stored = conversion.amount_in_kobo

\* A step of process_webhook for reference r: its lookup, or a later step of
\* a call whose lookup let it through
WebhookStepFor(r) ==
    \/ last'.op = "process_webhook" /\ last'.reference = r
    \/ \E p \in Procs :
          \/ pc[p] = "idle" /\ req'[p].op = "process_webhook" /\ req'[p].reference = r
          \/ req[p].op = "process_webhook" /\ req[p].reference = r /\ pc'[p] # pc[p]

\* C35: a transfer transaction has status success in every state from the one
\* that stores it, and process_webhook for the reference of a stored transfer,
\* whatever the gateway status, returns at once and changes neither the
\* transaction nor a balance nor the credits made.
TransferIsFinal ==
    /\ [](\A r \in DOMAIN transactions :
             transactions[r].type = "transfer" => transactions[r].status = "success")
    /\ [][\A r \in TransferRefs :
             (Stored(r) /\ WebhookStepFor(r)) =>
                /\ UNCHANGED <<wallets, transactions, credits>>
                /\ last'.op = "process_webhook"
                /\ last'.result = "ok"
                /\ last'.returned = "success"]_vars

\* a delivery with status success for the reference of a stored transfer came back
WebhookForTransferIgnored ==
    /\ last.op = "process_webhook"
    /\ last.reference \in TransferRefs
    /\ Stored(last.reference)
    /\ transactions[last.reference].type = "transfer"
    /\ last.status = "success"
    /\ last.result = "ok"
    /\ credits[last.reference] = 0

\* ------------------------------------------- the amount of a delivery
\* The body of a delivery as the gateway sends it: data["amount"], the amount
\* the gateway reports in minor units, beside the fields the route reads
PayloadAmounts == 1..(MaxAmount + 1)

DeliveryBody(event, reference, status, amount) ==
    [event |-> event, reference |-> reference, status |-> status, amount |-> amount]

\* A POST of such a body to the webhook route, signed with the secret
webhook_delivery_of_amount(p, reference, status, amount) ==
    /\ Free(p)
    /\ paystack_webhook(p, DeliveryBody("charge.success", reference, status, amount),
                        Hmac(SecretKey,
                             DeliveryBody("charge.success", reference, status, amount)))

PayloadStep(p) ==
    \/ \E u \in Users, a \in Amounts : initialize_deposit_get_wallet(p, u, a)
    \/ initialize_deposit_select(p)
    \/ initialize_deposit_gateway(p)
    \/ initialize_deposit_commit(p)
    \/ \E r \in DepositRefs, s \in GatewayStatuses, a \in PayloadAmounts :
          webhook_delivery_of_amount(p, r, s, a)
    \/ process_webhook_get_wallet(p)
    \/ process_webhook_commit(p)
    \/ process_webhook_refresh(p)

NextPayload == \E p \in Procs : PayloadStep(p) /\ UNCHANGED key_last

SpecPayload == Init /\ [][NextPayload]_vars

\* C36: what a correctly signed delivery does to the ledger is determined by
\* its reference and status and by the transaction stored: the wallet of the
\* transaction is credited with the amount stored on the transaction, whatever
\* amount the payload carries, no other balance and no amount changes, and the
\* status written does not depend on the payload amount.
PayloadAmountIgnored ==
    [][\A p \in Procs :
          (req[p].op = "process_webhook" /\ pc'[p] # pc[p]) =>
             LET r == req[p]
                 t == transactions[r.reference]
             IN  /\ \A i \in DOMAIN wallets :
                       \/ wallets'[i] = wallets[i]
                       \/ /\ i = t.wallet_id
                          /\ r.status = "success"
                          /\ wallets'[i] =
                                [wallets[i] EXCEPT !.balance = r.wallet_balance + t.amount]
                 /\ \A x \in DOMAIN transactions :
                       \/ transactions'[x] = transactions[x]
                       \/ /\ x = r.reference
                          /\ transactions'[x] =
                                [t EXCEPT !.status = IF r.status = "success"
                                                     THEN "success" ELSE "failed"]]_vars

\* a delivery reporting another amount than the one stored was reconciled: the
\* wallet holds the amount stored
DeliveryOfOtherAmountCredited ==
    /\ last.op = "process_webhook"
    /\ last.status = "success"
    /\ last.result = "ok"
    /\ last.signature[2].amount # transactions[last.reference].amount
    /\ credits[last.reference] = 1
    /\ wallets[transactions[last.reference].wallet_id].balance
          = transactions[last.reference].amount

\* C37: a correctly signed delivery of an event other than charge.success is
\* answered with success ("Event ignored") in the step it arrives in, without
\* a call of process_webhook and with every wallet and transaction unchanged;
\* and a deposit leaves the status pending only in the commit of a
\* process_webhook call made for a charge.success delivery.
OtherEventsIgnored ==
    [][/\ \A d \in ArrivingDeliveries :
             (SignatureMatches(d) /\ d.event # "charge.success")
                => /\ d = last'
                   /\ d.op = "paystack_webhook"
                   /\ d.result = "ok"
                   /\ d.returned = "Event ignored"
                   /\ pc' = pc
                   /\ UNCHANGED <<wallets, transactions, credits>>
       /\ \A r \in DOMAIN transactions :
             (transactions[r].status = "pending" /\ transactions'[r].status # "pending")
                => \E p \in Procs : /\ pc[p] = "process_webhook_commit"
                                    /\ pc'[p] # pc[p]
                                    /\ req[p].reference = r
                                    /\ req[p].event = "charge.success"]_vars

\* a correctly signed charge.failed delivery for a pending deposit was
\* acknowledged and the deposit is still pending
FailedEventLeftDepositPending ==
    /\ last.op = "paystack_webhook"
    /\ last.event = "charge.failed"
    /\ last.status = "failed"
    /\ SignatureMatches(last)
    /\ last.result = "ok"
    /\ Stored(last.reference)
    /\ transactions[last.reference].status = "pending"

\* ------------------------------------------- the history after transfers
\* u1 holds MaxAmount from a deposit; every request is made within the first
\* tick of the clock, so every Transaction object is built with that time
StatementInit ==
    /\ Funded
    /\ pc = [p \in Procs |-> "idle"]
    /\ req = [p \in Procs |-> NoRequest]
    /\ last = NoRequest
    /\ nreq = 0
    /\ created_at = [r \in References |-> 1]
    /\ listing = NoListing
    /\ api_keys = << >>
    /\ key_calls = [p \in Procs |-> NoKeyCall]
    /\ key_last = NoKeyCall
    /\ now = 1
    /\ NoTokens
    /\ conversion = NoConversion

\* Transfers between the wallets, one after the other, and the history of
\* either user read at any moment with a page of one row or of
\* PAGE_SIZE_LIMIT rows
NextStatement ==
    \/ \E p \in Procs :
          /\ Alone(p)
          /\ UNCHANGED key_last
          /\ \/ \E u \in Users, n \in RecipientNumbers, a \in Amounts :
                   transfer_get_sender(p, u, n, a)
             \/ transfer_get_recipient(p)
             \/ transfer_commit(p)
    \/ \E u \in KeyOwners, page \in {1, 2}, page_size \in {1, PAGE_SIZE_LIMIT} :
          get_transactions(u, page, page_size)
    \/ get_user_transactions_select

SpecStatement == StatementInit /\ [][NextStatement]_vars

\* The wallet numbers of a user, and the rows of the ledger by what they record
NumbersOf(user_id) ==
    {wallets[i].wallet_number : i \in {j \in DOMAIN wallets : wallets[j].user_id = user_id}}

TransfersSentBy(user_id) ==
    {r \in DOMAIN transactions : /\ transactions[r].type = "transfer"
                                 /\ transactions[r].sender_wallet_number \in NumbersOf(user_id)}

TransfersReceivedBy(user_id) ==
    {r \in DOMAIN transactions : /\ transactions[r].type = "transfer"
                                 /\ transactions[r].recipient_wallet_number \in NumbersOf(user_id)}

DepositsHeldBy(user_id) ==
    {r \in DOMAIN transactions : /\ transactions[r].type = "deposit"
                                 /\ wallets[transactions[r].wallet_id].user_id = user_id}

\* C38: a transfer is one row, owned by the sender.  The total a user's
\* history reports counts the user's deposits and the transfers the user
\* sent, and its rows are among these, none of them twice and none a transfer
\* the user received; a page that holds the whole history lists every
\* transfer the user sent.
TransfersListedForSenderOnly ==
    [][/\ (listing.pc = "idle" /\ listing'.pc = "get_user_transactions_select") =>
             listing'.total = Cardinality(DepositsHeldBy(listing'.user_id)
                                            \cup TransfersSentBy(listing'.user_id))
       /\ (listing.pc = "get_user_transactions_select" /\ listing'.pc = "idle") =>
             LET u == listing.user_id
                 items == listing'.items
                 own == DepositsHeldBy(u) \cup TransfersSentBy(u)
             IN  /\ \A i \in DOMAIN items : items[i] \in own
                 /\ \A i \in DOMAIN items : items[i] \notin TransfersReceivedBy(u)
                 /\ \A i, j \in DOMAIN items : i # j => items[i] # items[j]
                 /\ (listing.page = 1 /\ listing.page_size >= Cardinality(own)) =>
                       {items[i] : i \in DOMAIN items} = own
       /\ \A r \in DOMAIN transactions' \ DOMAIN transactions :
             transactions'[r].type = "transfer" =>
                /\ Cardinality(DOMAIN transactions') = Cardinality(DOMAIN transactions) + 1
                /\ \E p \in Procs :
                      /\ pc[p] = "transfer_commit"
                      /\ transactions'[r].user_id = req[p].user_id
                      /\ transactions'[r].wallet_id = req[p].sender_id]_vars

\* u2 received a transfer from u1 and sent one: the history of u2 lists the
\* one sent only, the history of u1 would list the other
ReceivedTransferNotListed ==
    /\ listing.pc = "idle" /\ listing.result = "ok"
    /\ listing.user_id = "u2"
    /\ listing.page = 1 /\ listing.page_size = PAGE_SIZE_LIMIT
    /\ TransfersReceivedBy("u2") # {}
    /\ TransfersSentBy("u2") # {}
    /\ listing.total = 1
    /\ Len(listing.items) = 1
    /\ listing.items[1] \in TransfersSentBy("u2")

\* ------------------------------------------ revocation and key lookups
\* (variant: a revoked key that has not expired still counts as valid)
is_valid_unless_expired(api_key) == api_key.expires_at > now

\* APIKey.is_valid: "not self.revoked and self.expires_at > now"
is_valid(api_key) == ~api_key.revoked /\ api_key.expires_at > now

\* APIKeyHandler.verify_api_key: the select by key, then is_valid; the keys
\* are told apart by their rows, a key no row holds is not found
verify_api_key_outcome(key) ==
    IF key \notin DOMAIN api_keys THEN "InvalidAPIKeyException"
    ELSE IF ~is_valid(api_keys[key]) THEN "InvalidAPIKeyException"
    ELSE "ok"

\* An authentication attempt with an API key
verify_api_key(key) ==
    /\ key_last' = [NoKeyCall EXCEPT !.op = "verify_api_key", !.key_id = key,
                                     !.result = verify_api_key_outcome(key)]
    /\ UNCHANGED <<api_keys, key_calls, now, ledger_vars, history_vars, auth_vars,
                   amount_vars>>

\* revoke_api_key, lines 176-189: session.get(APIKey, key_id), the checks on
\* the row loaded, and api_key.revoked = True in the session
revoke_api_key_get(p, user_id, key_id) ==
    /\ CanStartKeyCall(p)
    /\ LET r == [NoKeyCall EXCEPT !.op = "revoke_api_key", !.user_id = user_id,
                                  !.key_id = key_id]
       IN  IF key_id \notin DOMAIN api_keys \/ api_keys[key_id].user_id # user_id
           THEN KeyFinish(p, [r EXCEPT !.result = "APIKeyNotFoundException"])
           ELSE IF api_keys[key_id].revoked
           THEN KeyFinish(p, [r EXCEPT !.found = TRUE, !.owner = user_id,
                                       !.result = "InvalidAPIKeyException"])
           ELSE KeyGoto(p, "revoke_api_key_commit",
                        [r EXCEPT !.found = TRUE, !.owner = user_id])
    /\ UNCHANGED <<api_keys, now, ledger_vars, history_vars, auth_vars, amount_vars>>

\* revoke_api_key, lines 191-195: commit writes the flag; refresh; return
revoke_api_key_commit(p) ==
    /\ key_calls[p].pc = "revoke_api_key_commit"
    /\ api_keys' = [api_keys EXCEPT ![key_calls[p].key_id].revoked = TRUE]
    /\ KeyFinish(p, [key_calls[p] EXCEPT !.result = "ok"])
    /\ UNCHANGED <<now, ledger_vars, history_vars, auth_vars, amount_vars>>

MaxRows == 4

\* u1 holds a key that lives until MaxNow and one that expires at the first
\* tick; u2 holds one key
RevokeInit ==
    /\ Fresh
    /\ pc = [p \in Procs |-> "idle"]
    /\ req = [p \in Procs |-> NoRequest]
    /\ last = NoRequest
    /\ nreq = 0
    /\ created_at = << >>
    /\ listing = NoListing
    /\ api_keys = << APIKey("u1", Permissions, MaxNow), APIKey("u1", Permissions, 1),
                     APIKey("u2", Permissions, MaxNow) >>
    /\ key_calls = [p \in Procs |-> NoKeyCall]
    /\ key_last = NoKeyCall
    /\ now = 1
    /\ NoTokens
    /\ conversion = NoConversion

\* The table holds up to MaxRows rows: a rollover starts while there is room
\* for its new key
RevokeStep(p) ==
    \/ \E u \in KeyOwners, k \in 0..Len(api_keys) : revoke_api_key_get(p, u, k)
    \/ revoke_api_key_commit(p)
    \/ \E u \in KeyOwners, k \in 1..Len(api_keys) :
          /\ Len(api_keys) + Cardinality(InFlight) < MaxRows
          /\ rollover_api_key_get(p, u, k, 1)
    \/ rollover_api_key_select(p)
    \/ rollover_api_key_commit(p)

NextRevoke ==
    \/ \E p \in Procs : RevokeStep(p)
    \/ \E k \in 0..Len(api_keys) : verify_api_key(k)
    \/ Tick

SpecRevoke == RevokeInit /\ [][NextRevoke]_vars

\* A revoke of key i by its owner is called in this step
RevokeCalledFor(i) ==
    \E p \in Procs :
       /\ key_calls[p].pc = "idle"
       /\ \/ /\ key_calls'[p].op = "revoke_api_key"
             /\ key_calls'[p].key_id = i
             /\ key_calls'[p].user_id = api_keys[i].user_id
          \/ /\ key_calls' = key_calls
             /\ key_last'.op = "revoke_api_key"
             /\ key_last'.key_id = i
             /\ key_last'.user_id = api_keys[i].user_id

TokenSubject(jti) == IF jti = "jti_1" THEN "u1" ELSE "u2"

\* get_auth_context: a bearer token is verified and gives a jwt context,
\* whatever the x-api-key header holds; without one the x-api-key header is
\* verified by verify_api_key and gives the owner and the permissions of the
\* key; without either the request has no authorization
get_auth_context(jti, has_key, key) ==
    IF jti # "none"
    THEN [NoKeyCall EXCEPT !.op = "check_permission", !.auth_type = "jwt",
                           !.jti = jti, !.user_id = TokenSubject(jti),
                           !.result = VerifyOutcome(jti)]
    ELSE IF has_key
    THEN LET outcome == verify_api_key_outcome(key)
         IN  IF outcome = "ok"
             THEN [NoKeyCall EXCEPT !.op = "check_permission", !.auth_type = "api_key",
                                    !.key_id = key,
                                    !.user_id = api_keys[key].user_id,
                                    !.permissions = api_keys[key].permissions,
                                    !.result = "ok"]
             ELSE [NoKeyCall EXCEPT !.op = "check_permission", !.auth_type = "api_key",
                                    !.key_id = key, !.result = outcome]
    ELSE [NoKeyCall EXCEPT !.op = "check_permission",
                           !.result = "MissingAuthorizationException"]

\* (variant: every context holds every permission)
has_permission_of_everyone(auth, permission) == TRUE

\* AuthContext.has_permission
has_permission(auth, permission) ==
    IF auth.auth_type = "jwt" THEN TRUE ELSE permission \in auth.permissions

\* require_permission(permission): check_permission on the context
check_permission(auth, permission) ==
    IF auth.result # "ok" THEN auth.result
    ELSE IF ~has_permission(auth, permission) THEN "InsufficientPermissionsException"
    ELSE "ok"

\* A request to a wallet route: Depends(require_permission(permission)) runs
\* before the handler; the routes deposit, transfer and verify_transaction
\* call their operation for auth.user_id
wallet_route(p, permission, jti, has_key, key, number, amount, reference) ==
    LET auth == get_auth_context(jti, has_key, key)
        outcome == check_permission(auth, permission)
    IN  /\ key_last' = [auth EXCEPT !.permission = permission, !.result = outcome]
        /\ IF outcome # "ok"
           THEN /\ CanStart(p)
                /\ nreq' = nreq + 1
                /\ Finish(p, [NoRequest EXCEPT !.op = "check_permission",
                                               !.result = outcome])
                /\ UNCHANGED <<wallets, transactions, credits>>
           ELSE IF permission = "deposit"
           THEN initialize_deposit_get_wallet(p, auth.user_id, amount)
           ELSE IF permission = "transfer"
           THEN transfer_get_sender(p, auth.user_id, number, amount)
           ELSE verify_transaction_select(p, reference)

\* u1 holds the deposit of the funded ledger, a key for deposits and a key
\* for transfers and reads that expires after the first tick; u2 holds a key
\* with every permission and one that was revoked; jti_1 is the token of
\* u1's login
AccessInit ==
    /\ Funded
    /\ pc = [p \in Procs |-> "idle"]
    /\ req = [p \in Procs |-> NoRequest]
    /\ last = NoRequest
    /\ nreq = 0
    /\ created_at = << >>
    /\ listing = NoListing
    /\ api_keys = << APIKey("u1", {"deposit"}, MaxNow),
                     APIKey("u1", {"transfer", "read"}, 2),
                     APIKey("u2", Permissions, MaxNow),
                     [APIKey("u2", Permissions, MaxNow) EXCEPT !.revoked = TRUE] >>
    /\ key_calls = [p \in Procs |-> NoKeyCall]
    /\ key_last = NoKeyCall
    /\ now = 1
    /\ tokens = ("jti_1" :> 1 + TOKEN_LIFETIME)
    /\ revoked_tokens = << >>
    /\ redis_up = TRUE
    /\ logged_out = {}
    /\ auth_last = NoTokenCall
    /\ conversion = NoConversion

\* The later steps of the operations behind the guard
AccessStep(p) ==
    \/ initialize_deposit_select(p)
    \/ initialize_deposit_gateway(p)
    \/ initialize_deposit_commit(p)
    \/ transfer_get_recipient(p)
    \/ transfer_commit(p)
    \/ verify_transaction_gateway(p)

NextAccess ==
    \/ \E p \in Procs, permission \in Permissions, jti \in Jtis \cup {"none"},
          has_key \in BOOLEAN, key \in 0..Len(api_keys), reference \in DepositRefs :
          /\ Alone(p)
          /\ wallet_route(p, permission, jti, has_key, key,
                          "0000000000002", 1, reference)
    \/ \E p \in Procs : Alone(p) /\ AccessStep(p) /\ key_last' = NoKeyCall
    \/ Tick

SpecAccess == AccessInit /\ [][NextAccess]_vars

\* The operation behind require_permission(permission) starts in this step
\* for user_id
OperationStarts(permission, user_id) ==
    \E p \in Procs :
       /\ pc[p] = "idle"
       /\ \E r \in {req'[p], last'} :
             IF permission = "deposit"
             THEN r.op = "initialize_deposit" /\ r.user_id = user_id
             ELSE IF permission = "transfer"
             THEN r.op = "transfer" /\ r.user_id = user_id
             ELSE r.op = "verify_transaction"

\* The request is answered by the guard: no operation starts, the ledger is
\* as it was
RejectedByGuard ==
    /\ last'.op = "check_permission"
    /\ last'.result # "ok"
    /\ pc' = pc
    /\ UNCHANGED <<wallets, transactions, credits>>

\* C40: a request to a wallet route that authenticates with an API key
\* reaches the operation behind require_permission(P) exactly when the key is
\* stored, not revoked, not expired and lists P; otherwise the guard rejects
\* it, no operation starts and the ledger is unchanged.  A request with a
\* valid JWT reaches the operation of every route.
GuardedByPermission ==
    [][(key_last'.op = "check_permission" /\ nreq' = nreq + 1) =>
          LET a == key_last'
              k == a.key_id
          IN  /\ a.auth_type = "api_key" =>
                    IF /\ k \in DOMAIN api_keys
                       /\ ~api_keys[k].revoked
                       /\ api_keys[k].expires_at > now
                       /\ a.permission \in api_keys[k].permissions
                    THEN OperationStarts(a.permission, api_keys[k].user_id)
                    ELSE RejectedByGuard
              /\ a.auth_type = "jwt" =>
                    IF VerifyOutcome(a.jti) = "ok"
                    THEN OperationStarts(a.permission, TokenSubject(a.jti))
                    ELSE RejectedByGuard
              /\ a.auth_type = "none" => RejectedByGuard]_vars

\* a request with the key of u1 that lists transfer, before the key
\* expired, started a transfer of u1
KeyWithPermissionReachedTransfer ==
    /\ key_last.op = "check_permission"
    /\ key_last.auth_type = "api_key"
    /\ key_last.key_id = 2
    /\ key_last.permission = "transfer"
    /\ key_last.result = "ok"
    /\ \E p \in Procs : req[p].op = "transfer" /\ req[p].user_id = "u1"

====
